---- MODULE Spec2Model ----
(***************************************************************************)
(* The HTML tokenizer of src/dom/parser/tokenizer.rs as a state machine.   *)
(* The variables are the fields of the Tokenizer struct, the parse errors  *)
(* it writes to stderr, and the position of Tokenizer::run.  Every handler *)
(* of the run loop is an operator from the tokenizer's fields to its       *)
(* fields after the handler, and one action of the next-state relation.    *)
(* Bytes and characters are their code points.                             *)
(*                                                                         *)
(* The selector of the insertion mode of src/dom/parser/insertion_mode.rs, *)
(* called by TreeConstructor::reset_insertion_mode, is a second state      *)
(* machine over the fields of the TreeConstructor struct (SelSpec).        *)
(***************************************************************************)
EXTENDS Integers, Sequences, FiniteSets, TLC

VARIABLES input_stream, state, ret_state, current_tag_token,
          current_comment_token, current_doctype_token, tokens,
          temporary_buffer, last_start_tag_token, current_tag_name,
          current_tag_value, parse_errors, pc

(* History of the cursor: the number of calls of reconsume_char since the  *)
(* cursor last advanced.                                                   *)
VARIABLE reconsumed

(* The fields of the TreeConstructor struct, the two inputs the selector of *)
(* the insertion mode takes from the tree constructor besides them, and the *)
(* locals and the position of InsertionMode::reset_insertion_mode.          *)
VARIABLES insertion_mode, stack_of_open_elements, is_fragment_case,
          context_element, head_element_created,
          current_template_insertion_mode, last, node, ancestor, sel_pc

tc_vars == <<insertion_mode, stack_of_open_elements, is_fragment_case,
             context_element, head_element_created,
             current_template_insertion_mode, last, node, ancestor, sel_pc>>

tok_vars == <<input_stream, state, ret_state, current_tag_token,
              current_comment_token, current_doctype_token, tokens,
              temporary_buffer, last_start_tag_token, current_tag_name,
              current_tag_value, parse_errors, pc, reconsumed>>

vars == <<input_stream, state, ret_state, current_tag_token,
          current_comment_token, current_doctype_token, tokens,
          temporary_buffer, last_start_tag_token, current_tag_name,
          current_tag_value, parse_errors, pc, reconsumed,
          insertion_mode, stack_of_open_elements, is_fragment_case,
          context_element, head_element_created,
          current_template_insertion_mode, last, node, ancestor, sel_pc>>

(***************************************************************************)
(* Bytes the handlers match on.                                            *)
(***************************************************************************)
NUL == 0
TAB == 9
LF == 10
FF == 12
SPACE == 32
BANG == 33
DQUOTE == 34
AMP == 38
SQUOTE == 39
DASH == 45
SOLIDUS == 47
LT == 60
EQ == 61
GT == 62
QMARK == 63
BACKTICK == 96
REPLACEMENT == 65533
CASE_OFFSET == 32

WS == {TAB, LF, FF, SPACE}

is_ascii_uppercase(ch) == ch \in 65..90
is_ascii_lowercase(ch) == ch \in 97..122
is_ascii_alphabetic(ch) == is_ascii_uppercase(ch) \/ is_ascii_lowercase(ch)
to_ascii_lowercase(ch) == IF is_ascii_uppercase(ch) THEN ch + CASE_OFFSET ELSE ch

(***************************************************************************)
(* Option<T>: None is the empty sequence, Some(x) the sequence of x.       *)
(***************************************************************************)
None == <<>>
Some(x) == <<x>>

(***************************************************************************)
(* Tokens.  NoToken is the None of an Option<Token> field.                 *)
(***************************************************************************)
NoToken == [type |-> "None"]
StartTag(n, sc, attrs) ==
    [type |-> "StartTag", tag_name |-> n, self_closing |-> sc, attributes |-> attrs]
EndTag(n, sc, attrs) ==
    [type |-> "EndTag", tag_name |-> n, self_closing |-> sc, attributes |-> attrs]
Comment(d) == [type |-> "Comment", data |-> d]
Character(c) == [type |-> "Character", data |-> c]
DOCTYPE(n, p, sy, fq) ==
    [type |-> "DOCTYPE", name |-> n, public_id |-> p, system_id |-> sy, force_quirks |-> fq]
EOF == [type |-> "EOF"]

IsTag(t) == t.type \in {"StartTag", "EndTag"}

(***************************************************************************)
(* Token::attribute_exists, Token::add_attribute, set_self_closing_flag.   *)
(***************************************************************************)
attribute_exists(t, name) ==
    IF IsTag(t)
    THEN \E i \in 1..Len(t.attributes) : t.attributes[i][1] = name
    ELSE FALSE

add_attribute(t, name, value) ==
    IF IsTag(t)
    THEN IF ~(\E i \in 1..Len(t.attributes) : t.attributes[i][1] = name)
         THEN [t EXCEPT !.attributes = Append(@, <<name, value>>)]
         ELSE t
    ELSE t

set_self_closing_flag(t, flag) ==
    IF IsTag(t) THEN [t EXCEPT !.self_closing = flag] ELSE t

(***************************************************************************)
(* The byte stream (crate::helper::stream::Stream): a slice and a cursor.  *)
(***************************************************************************)
Stream_new(data) == [data |-> data, idx |-> 0]
is_eof(st) == st.idx >= Len(st.data)
current_cpy(st) == IF st.idx < Len(st.data) THEN Some(st.data[st.idx + 1]) ELSE None
advance(st) == [st EXCEPT !.idx = IF @ < Len(st.data) THEN @ + 1 ELSE @]
slice_from_idx(st, n) ==
    SubSeq(st.data, st.idx + 1, IF st.idx + n <= Len(st.data) THEN st.idx + n ELSE Len(st.data))
expect_many(st, expect) == slice_from_idx(st, Len(expect)) = expect
expect_many_and_skip(st, expect) ==
    IF expect_many(st, expect) THEN [st EXCEPT !.idx = @ + Len(expect)] ELSE st

(***************************************************************************)
(* The tokenizer's fields as one record, and the helpers of the handlers.  *)
(***************************************************************************)
Self ==
    [input_stream |-> input_stream, state |-> state, ret_state |-> ret_state,
     current_tag_token |-> current_tag_token,
     current_comment_token |-> current_comment_token,
     current_doctype_token |-> current_doctype_token,
     tokens |-> tokens, temporary_buffer |-> temporary_buffer,
     last_start_tag_token |-> last_start_tag_token,
     current_tag_name |-> current_tag_name,
     current_tag_value |-> current_tag_value,
     parse_errors |-> parse_errors, pc |-> pc, reconsumed |-> reconsumed]

Tokenizer_new(input) ==
    [input_stream |-> Stream_new(input), state |-> "Data", ret_state |-> "Data",
     current_tag_token |-> NoToken, current_comment_token |-> NoToken,
     current_doctype_token |-> NoToken, tokens |-> <<>>,
     temporary_buffer |-> <<>>, last_start_tag_token |-> NoToken,
     current_tag_name |-> <<>>, current_tag_value |-> <<>>,
     parse_errors |-> <<>>, pc |-> "run", reconsumed |-> 0]

(* emit_token recording an EndTag as the last start tag as well.           *)
M_emit_token(s, token) ==
    [s EXCEPT !.last_start_tag_token = IF IsTag(token) THEN token ELSE @,
              !.tokens = Append(@, token)]

emit_token(s, token) ==
    [s EXCEPT !.last_start_tag_token = IF token.type = "StartTag" THEN token ELSE @,
              !.tokens = Append(@, token)]

next_input_char(s) == current_cpy(s.input_stream)
(* The tokenizer with its cursor at st: a cursor that has moved forward    *)
(* starts a new count of reconsume_char calls.                             *)
with_stream(s, st) ==
    [s EXCEPT !.input_stream = st,
              !.reconsumed = IF st.idx > s.input_stream.idx THEN 0 ELSE @]

(* consume_next_input_char reading the current byte without advancing.     *)
M_consume_next_input_char(s) == s

consume_next_input_char(s) == with_stream(s, advance(s.input_stream))

Max(a, b) == IF a >= b THEN a ELSE b

(* `idx -= 1` on an unsigned index: at 0 the subtraction overflows, which  *)
(* panics where overflow checks are on (the wrapped value is of no use     *)
(* either: max(idx, 0) keeps it).                                          *)
reconsume_char(s) ==
    IF s.input_stream.idx = 0
    THEN [s EXCEPT !.reconsumed = @ + 1, !.pc = "panicked"]
    ELSE [s EXCEPT !.input_stream.idx = Max(@ - 1, 0), !.reconsumed = @ + 1]

emit_parse_error(s, err) == [s EXCEPT !.parse_errors = Append(@, err)]

set_state(s, st) == [s EXCEPT !.state = st]

(* Option::unwrap on None: the thread panics and run never returns. *)
panic(s) == [s EXCEPT !.pc = "panicked"]

push_tag_name(s, ch) ==
    IF s.current_tag_token.type = "StartTag"
    THEN [s EXCEPT !.current_tag_token.tag_name = Append(@, ch)]
    ELSE s

(***************************************************************************)
(* Handlers: Data, TagOpen, EndTagOpen, TagName.                           *)
(***************************************************************************)
(* handle_data_state dropping the characters of its last arm.           *)
M_handle_data_state(s0) ==
    LET next_char == next_input_char(s0)
        s == consume_next_input_char(s0)
    IN  CASE next_char = Some(AMP) ->
               [s EXCEPT !.ret_state = "Data", !.state = "CharacterReference"]
          [] next_char = Some(LT) -> set_state(s, "TagOpen")
          [] next_char = Some(NUL) ->
               emit_token(emit_parse_error(s, "unexpected-null-character"),
                          Character(next_char[1]))
          [] next_char = None -> emit_token(s, EOF)
          [] OTHER -> IF next_char[1] = SPACE THEN s
                      ELSE emit_token(s, Character(next_char[1]))

handle_data_state(s0) ==
    LET next_char == next_input_char(s0)
        s == consume_next_input_char(s0)
    IN  CASE next_char = Some(AMP) ->
               [s EXCEPT !.ret_state = "Data", !.state = "CharacterReference"]
          [] next_char = Some(LT) -> set_state(s, "TagOpen")
          [] next_char = Some(NUL) ->
               emit_token(emit_parse_error(s, "unexpected-null-character"),
                          Character(next_char[1]))
          [] next_char = None -> emit_token(s, EOF)
          [] OTHER -> emit_token(s, Character(next_char[1]))

handle_tag_open_state(s0) ==
    LET next_char == next_input_char(s0)
        s == consume_next_input_char(s0)
    IN  IF next_char = Some(BANG) THEN set_state(s, "MarkupDeclarationOpen")
        ELSE IF next_char = Some(SOLIDUS) THEN set_state(s, "EndTagOpen")
        ELSE IF next_char # None /\ is_ascii_alphabetic(next_char[1]) THEN
            reconsume_char(set_state(
                [s EXCEPT !.current_tag_token = StartTag(<<>>, FALSE, <<>>)], "TagName"))
        ELSE IF next_char = Some(QMARK) THEN
            reconsume_char(set_state(
                [emit_parse_error(s, "unexpected-question-mark-instead-of-tag-name")
                    EXCEPT !.current_comment_token = Comment(<<>>)], "BogusComment"))
        ELSE IF next_char = None THEN
            emit_token(emit_token(emit_parse_error(s, " eof-before-tag-name"),
                                  Character(LT)), EOF)
        ELSE reconsume_char(set_state(
                emit_token(emit_parse_error(s, "invalid-first-character-of-tag-name"),
                           Character(LT)), "Data"))

handle_end_tag_open_state(s0) ==
    LET next_char == next_input_char(s0)
        s == consume_next_input_char(s0)
    IN  IF next_char # None /\ is_ascii_alphabetic(next_char[1]) THEN
            reconsume_char(set_state(
                [s EXCEPT !.current_tag_token = EndTag(<<>>, FALSE, <<>>)], "TagName"))
        ELSE IF next_char = Some(GT) THEN
            set_state(emit_parse_error(s, "missing-end-tag-name"), "Data")
        ELSE IF next_char = None THEN
            emit_token(emit_token(emit_token(
                emit_parse_error(s, "eof-before-tag-name"),
                Character(LT)), Character(SOLIDUS)), EOF)
        ELSE reconsume_char(set_state(
                [emit_parse_error(s, "invalid-first-character-of-tag-name")
                    EXCEPT !.current_comment_token = Comment(<<>>)], "BogusComment"))

(* handle_tag_name_state storing an uppercase byte as it is.            *)
M_handle_tag_name_state(s0) ==
    LET next_char == next_input_char(s0)
        s == consume_next_input_char(s0)
    IN  IF next_char # None /\ next_char[1] \in WS THEN set_state(s, "BeforeAttributeName")
        ELSE IF next_char = Some(SOLIDUS) THEN set_state(s, "SelfClosingStartTag")
        ELSE IF next_char = Some(GT) THEN
            IF s.current_tag_token # NoToken
            THEN emit_token(set_state(s, "Data"), s.current_tag_token)
            ELSE set_state(s, "Data")
        ELSE IF next_char = Some(NUL) THEN
            push_tag_name(emit_parse_error(s, "unexpected-null-character"), REPLACEMENT)
        ELSE IF next_char = None THEN
            emit_token(emit_parse_error(s, "Parse error: EOF in tag"), EOF)
        ELSE push_tag_name(s, next_char[1])

handle_tag_name_state(s0) ==
    LET next_char == next_input_char(s0)
        s == consume_next_input_char(s0)
    IN  IF next_char # None /\ next_char[1] \in WS THEN set_state(s, "BeforeAttributeName")
        ELSE IF next_char = Some(SOLIDUS) THEN set_state(s, "SelfClosingStartTag")
        ELSE IF next_char = Some(GT) THEN
            IF s.current_tag_token # NoToken
            THEN emit_token(set_state(s, "Data"), s.current_tag_token)
            ELSE set_state(s, "Data")
        ELSE IF next_char # None /\ is_ascii_uppercase(next_char[1]) THEN
            push_tag_name(s, next_char[1] + CASE_OFFSET)
        ELSE IF next_char = Some(NUL) THEN
            push_tag_name(emit_parse_error(s, "unexpected-null-character"), REPLACEMENT)
        ELSE IF next_char = None THEN
            emit_token(emit_parse_error(s, "Parse error: EOF in tag"), EOF)
        ELSE push_tag_name(s, next_char[1])

(***************************************************************************)
(* add_attribute_to_current_tag_token, current_tag_attr_name_exist and the *)
(* emit_current_*_token helpers.                                           *)
(***************************************************************************)
current_tag_attr_name_exist(s) ==
    IF s.current_tag_token # NoToken
    THEN attribute_exists(s.current_tag_token, s.current_tag_name)
    ELSE FALSE

(* add_attribute_to_current_tag_token pushing the scratch pair without   *)
(* looking for the name on the tag.                                       *)
M_add_attribute_to_current_tag_token(s0) ==
    IF s0.current_tag_token # NoToken
    THEN [s0 EXCEPT !.current_tag_token.attributes =
                        Append(@, <<s0.current_tag_name, s0.current_tag_value>>),
                    !.current_tag_name = <<>>,
                    !.current_tag_value = <<>>]
    ELSE emit_parse_error(s0, "Token is None; cannot add attribute.")

add_attribute_to_current_tag_token(s0) ==
    LET tag_name_exists == current_tag_attr_name_exist(s0)
        s == IF s0.current_tag_token = NoToken
             THEN emit_parse_error(s0, "Token is None; cannot add attribute.")
             ELSE s0
    IN  IF s.current_tag_token # NoToken
        THEN IF tag_name_exists
             THEN emit_parse_error(s, "attribute-name-existed")
             ELSE [s EXCEPT !.current_tag_token =
                                add_attribute(@, s.current_tag_name, s.current_tag_value),
                            !.current_tag_name = <<>>,
                            !.current_tag_value = <<>>]
        ELSE emit_parse_error(s, "Token is None; cannot add attribute.")

emit_current_tag_token(s) ==
    IF s.current_tag_token # NoToken
    THEN emit_token([s EXCEPT !.current_tag_token = NoToken], s.current_tag_token)
    ELSE s

emit_current_comment_token(s) ==
    IF s.current_comment_token # NoToken
    THEN emit_token([s EXCEPT !.current_comment_token = NoToken], s.current_comment_token)
    ELSE s

emit_current_doctype_token(s) ==
    IF s.current_doctype_token # NoToken
    THEN emit_token([s EXCEPT !.current_doctype_token = NoToken], s.current_doctype_token)
    ELSE s

IsWS(c) == c # None /\ c[1] \in WS

(***************************************************************************)
(* Handlers: the attribute states and SelfClosingStartTag.                 *)
(***************************************************************************)
handle_before_attribute_name_state(s0) ==
    LET next_char == next_input_char(s0)
        s == consume_next_input_char(s0)
    IN  IF IsWS(next_char) THEN s
        ELSE IF next_char \in {Some(SOLIDUS), Some(GT), None} THEN
            reconsume_char(set_state(s, "AfterAttributeName"))
        ELSE IF next_char = Some(EQ) THEN
            set_state([emit_parse_error(s, "unexpected-equals-sign-before-attribute-name")
                          EXCEPT !.current_tag_value = <<>>], "AttributeName")
        ELSE reconsume_char(set_state(
                [s EXCEPT !.current_tag_name = <<>>, !.current_tag_value = <<>>],
                "AttributeName"))

(* handle_attribute_name_state storing an uppercase byte as it is.       *)
M_handle_attribute_name_state(s0) ==
    LET next_char == next_input_char(s0)
        s == consume_next_input_char(s0)
    IN  IF IsWS(next_char) \/ next_char \in {Some(SOLIDUS), Some(GT), None} THEN
            reconsume_char(set_state(s, "AfterAttributeName"))
        ELSE IF next_char = Some(EQ) THEN set_state(s, "BeforeAttributeValue")
        ELSE IF next_char = Some(NUL) THEN
            [emit_parse_error(s, "unexpected-null-character")
                EXCEPT !.current_tag_name = Append(@, REPLACEMENT)]
        ELSE IF next_char \in {Some(DQUOTE), Some(SQUOTE), Some(LT)} THEN
            [emit_parse_error(s, "unexpected-character-in-attribute-name")
                EXCEPT !.current_tag_name = Append(@, next_char[1])]
        ELSE [s EXCEPT !.current_tag_name = Append(@, next_char[1])]

handle_attribute_name_state(s0) ==
    LET next_char == next_input_char(s0)
        s == consume_next_input_char(s0)
    IN  IF IsWS(next_char) \/ next_char \in {Some(SOLIDUS), Some(GT), None} THEN
            reconsume_char(set_state(s, "AfterAttributeName"))
        ELSE IF next_char = Some(EQ) THEN set_state(s, "BeforeAttributeValue")
        ELSE IF is_ascii_uppercase(next_char[1]) THEN
            [s EXCEPT !.current_tag_name = Append(@, next_char[1] + CASE_OFFSET)]
        ELSE IF next_char = Some(NUL) THEN
            [emit_parse_error(s, "unexpected-null-character")
                EXCEPT !.current_tag_name = Append(@, REPLACEMENT)]
        ELSE IF next_char \in {Some(DQUOTE), Some(SQUOTE), Some(LT)} THEN
            [emit_parse_error(s, "unexpected-character-in-attribute-name")
                EXCEPT !.current_tag_name = Append(@, next_char[1])]
        ELSE [s EXCEPT !.current_tag_name = Append(@, next_char[1])]

handle_after_attribute_name_state(s0) ==
    LET next_char == next_input_char(s0)
        s == consume_next_input_char(s0)
    IN  IF IsWS(next_char) THEN s
        ELSE IF next_char = Some(SOLIDUS) THEN
            set_state(add_attribute_to_current_tag_token(s), "SelfClosingStartTag")
        ELSE IF next_char = Some(EQ) THEN set_state(s, "BeforeAttributeValue")
        ELSE IF next_char = Some(GT) THEN
            emit_current_tag_token(set_state(add_attribute_to_current_tag_token(s), "Data"))
        ELSE IF next_char = None THEN
            emit_token(emit_parse_error(add_attribute_to_current_tag_token(s), "eof-in-tag"),
                       EOF)
        ELSE reconsume_char(set_state(add_attribute_to_current_tag_token(s),
                                      "AttributeName"))

handle_before_attribute_value_state(s0) ==
    LET next_char == next_input_char(s0)
        s == consume_next_input_char(s0)
    IN  IF IsWS(next_char) THEN s
        ELSE IF next_char = Some(DQUOTE) THEN set_state(s, "AttributeValueDoubleQuoted")
        ELSE IF next_char = Some(SQUOTE) THEN set_state(s, "AttributeValueSingleQuoted")
        ELSE IF next_char = Some(GT) THEN
            emit_current_tag_token(
                set_state(emit_parse_error(s, "missing-attribute-value"), "Data"))
        ELSE IF next_char = None THEN s
        ELSE reconsume_char(set_state(s, "AttributeValueUnquoted"))

attribute_value_quoted(s0, quote, this_state) ==
    LET next_char == next_input_char(s0)
        s == consume_next_input_char(s0)
    IN  IF next_char = Some(quote) THEN set_state(s, "AfterAttributeValueQuoted")
        ELSE IF next_char = Some(AMP) THEN
            [s EXCEPT !.ret_state = this_state, !.state = "CharacterReference"]
        ELSE IF next_char = Some(NUL) THEN
            [emit_parse_error(s, "unexpected-null-character")
                EXCEPT !.current_tag_value = Append(@, REPLACEMENT)]
        ELSE IF next_char = None THEN
            emit_token(emit_parse_error(s, "eof-in-tag"), EOF)
        ELSE [s EXCEPT !.current_tag_value = Append(@, next_char[1])]

handle_attribute_value_double_quoted_state(s) ==
    attribute_value_quoted(s, DQUOTE, "AttributeValueDoubleQuoted")

handle_attribute_value_single_quoted_state(s) ==
    attribute_value_quoted(s, SQUOTE, "AttributeValueSingleQuoted")

handle_attribute_value_unquoted_state(s0) ==
    LET next_char == next_input_char(s0)
        s == consume_next_input_char(s0)
    IN  IF IsWS(next_char) THEN set_state(s, "BeforeAttributeName")
        ELSE IF next_char = Some(AMP) THEN
            [s EXCEPT !.ret_state = "AttributeValueUnquoted", !.state = "CharacterReference"]
        ELSE IF next_char = Some(GT) THEN emit_current_tag_token(set_state(s, "Data"))
        ELSE IF next_char = Some(NUL) THEN
            [emit_parse_error(s, "unexpected-null-character")
                EXCEPT !.current_tag_value = Append(@, REPLACEMENT)]
        ELSE IF next_char \in {Some(DQUOTE), Some(SQUOTE), Some(LT), Some(EQ), Some(BACKTICK)}
        THEN [emit_parse_error(s, "unexpected-character-in-unquoted-attribute-value")
                EXCEPT !.current_tag_value = Append(@, next_char[1])]
        ELSE IF next_char = None THEN
            emit_token(emit_parse_error(s, "eof-in-tag"), EOF)
        ELSE [s EXCEPT !.current_tag_value = Append(@, next_char[1])]

handle_after_attribute_value_quoted_state(s0) ==
    LET next_char == next_input_char(s0)
        s == consume_next_input_char(s0)
    IN  IF IsWS(next_char) THEN set_state(s, "BeforeAttributeName")
        ELSE IF next_char = Some(SOLIDUS) THEN set_state(s, "SelfClosingStartTag")
        ELSE IF next_char = Some(GT) THEN emit_current_tag_token(set_state(s, "Data"))
        ELSE IF next_char = None THEN
            emit_token(emit_parse_error(s, "eof-in-tag"), EOF)
        ELSE reconsume_char(set_state(
                emit_parse_error(s, "missing-whitespace-between-attributes"),
                "BeforeAttributeName"))

(* handle_self_closing_start_tag_state emitting the tag on `>` without     *)
(* setting its flag.                                                       *)
M_handle_self_closing_start_tag_state(s0) ==
    LET next_char == next_input_char(s0)
        s == consume_next_input_char(s0)
    IN  IF next_char = Some(GT) THEN
            emit_current_tag_token(set_state(s, "Data"))
        ELSE IF next_char = None THEN
            emit_token(emit_parse_error(s, "eof-in-tag"), EOF)
        ELSE reconsume_char(set_state(
                emit_parse_error(s, "unexpected-solidus-in-tag"), "BeforeAttributeName"))

handle_self_closing_start_tag_state(s0) ==
    LET next_char == next_input_char(s0)
        s == consume_next_input_char(s0)
    IN  IF next_char = Some(GT) THEN
            emit_current_tag_token(set_state(
                [s EXCEPT !.current_tag_token = set_self_closing_flag(@, TRUE)], "Data"))
        ELSE IF next_char = None THEN
            emit_token(emit_parse_error(s, "eof-in-tag"), EOF)
        ELSE reconsume_char(set_state(
                emit_parse_error(s, "unexpected-solidus-in-tag"), "BeforeAttributeName"))


(***************************************************************************)
(* consume_if_expected: the result, and the tokenizer after the call.      *)
(***************************************************************************)
LowerSeq(q) == [i \in 1..Len(q) |-> to_ascii_lowercase(q[i])]

consume_if_expected_result(s, expect, ascii_insensitive) ==
    IF ~ascii_insensitive
    THEN expect_many(s.input_stream, expect)
    ELSE LowerSeq(expect) = LowerSeq(slice_from_idx(s.input_stream, Len(expect)))

consume_if_expected(s, expect, ascii_insensitive) ==
    IF ~ascii_insensitive
    THEN with_stream(s, expect_many_and_skip(s.input_stream, expect))
    ELSE IF consume_if_expected_result(s, expect, ascii_insensitive)
         THEN with_stream(s, [s.input_stream EXCEPT !.idx = @ + Len(expect)])
         ELSE s

KW_DASHDASH == <<45, 45>>
KW_DOCTYPE == <<68, 79, 67, 84, 89, 80, 69>>
KW_CDATA == <<91, 67, 68, 65, 84, 65, 91>>
KW_PUBLIC == <<80, 85, 66, 76, 73, 67>>
KW_SYSTEM == <<83, 89, 83, 84, 69, 77>>

push_comment(s, str) ==
    IF s.current_comment_token.type = "Comment"
    THEN [s EXCEPT !.current_comment_token.data = @ \o str]
    ELSE s

(***************************************************************************)
(* Handlers: BogusComment, MarkupDeclarationOpen and the comment states.   *)
(***************************************************************************)
handle_bogus_comment_state(s0) ==
    LET next_char == next_input_char(s0)
        s == consume_next_input_char(s0)
    IN  IF next_char = Some(GT) THEN emit_current_comment_token(set_state(s, "Data"))
        ELSE IF next_char = Some(NUL) THEN
            push_comment(emit_parse_error(s, "unexpected-null-character"), <<REPLACEMENT>>)
        ELSE IF next_char = None THEN emit_token(emit_current_comment_token(s), EOF)
        ELSE push_comment(s, <<next_char[1]>>)

handle_markup_declaration_open_state(s) ==
    IF consume_if_expected_result(s, KW_DASHDASH, FALSE) THEN
        set_state([consume_if_expected(s, KW_DASHDASH, FALSE)
                      EXCEPT !.current_comment_token = Comment(<<>>)], "CommentStart")
    ELSE IF consume_if_expected_result(s, KW_DOCTYPE, TRUE) THEN
        set_state(consume_next_input_char(consume_if_expected(s, KW_DOCTYPE, TRUE)),
                  "DOCTYPE")
    ELSE IF consume_if_expected_result(s, KW_CDATA, FALSE) THEN
        set_state([emit_parse_error(consume_if_expected(s, KW_CDATA, FALSE),
                                    "cdata-in-html-content")
                      EXCEPT !.current_comment_token = Comment(KW_CDATA)], "BogusComment")
    ELSE set_state([emit_parse_error(s, "incorrectly-opened-comment")
                      EXCEPT !.current_comment_token = Comment(<<>>)], "BogusComment")

handle_comment_start_state(s0) ==
    LET next_char == next_input_char(s0)
        s == consume_next_input_char(s0)
    IN  IF next_char = Some(DASH) THEN set_state(s, "CommentStartDash")
        ELSE IF next_char = Some(GT) THEN
            emit_current_comment_token(set_state(
                emit_parse_error(s, "abrupt-closing-of-empty-comment"), "Data"))
        ELSE reconsume_char(set_state(s, "Comment"))

handle_comment_start_dash_state(s0) ==
    LET next_char == next_input_char(s0)
        s == consume_next_input_char(s0)
    IN  IF next_char = Some(DASH) THEN set_state(s, "CommentEnd")
        ELSE IF next_char = Some(GT) THEN
            emit_current_comment_token(set_state(
                emit_parse_error(s, "abrupt-closing-of-empty-comment"), "Data"))
        ELSE IF next_char = None THEN
            emit_token(emit_current_comment_token(emit_parse_error(s, "eof-in-comment")), EOF)
        ELSE reconsume_char(set_state(push_comment(s, <<DASH>>), "Comment"))

handle_comment_state(s0) ==
    LET next_char == next_input_char(s0)
        s == consume_next_input_char(s0)
    IN  IF next_char = Some(LT) THEN
            set_state(push_comment(s, <<LT>>), "CommentLessThanSign")
        ELSE IF next_char = Some(DASH) THEN set_state(s, "CommentEndDash")
        ELSE IF next_char = Some(NUL) THEN
            push_comment(emit_parse_error(s, "unexpected-null-character"), <<REPLACEMENT>>)
        ELSE IF next_char = None THEN
            emit_token(emit_current_comment_token(emit_parse_error(s, "eof-in-comment")), EOF)
        ELSE push_comment(s, <<next_char[1]>>)

handle_comment_less_than_sign_state(s0) ==
    LET next_char == next_input_char(s0)
        s == consume_next_input_char(s0)
    IN  IF next_char = Some(BANG) THEN
            set_state(push_comment(s, <<BANG>>), "CommentLessThanSignBang")
        ELSE IF next_char = Some(LT) THEN push_comment(s, <<LT>>)
        ELSE set_state(reconsume_char(s), "Comment")

handle_comment_less_than_sign_bang_state(s0) ==
    LET next_char == next_input_char(s0)
        s == consume_next_input_char(s0)
    IN  IF next_char = Some(DASH) THEN set_state(s, "CommentLessThanSignBangDash")
        ELSE set_state(reconsume_char(s), "Comment")

handle_comment_less_than_sign_bang_dash_state(s0) ==
    LET next_char == next_input_char(s0)
        s == consume_next_input_char(s0)
    IN  IF next_char = Some(DASH) THEN set_state(s, "CommentLessThanSignBangDashDash")
        ELSE set_state(reconsume_char(s), "CommentEndDash")

handle_comment_less_than_sign_bang_dash_dash_state(s0) ==
    LET next_char == next_input_char(s0)
        s == consume_next_input_char(s0)
    IN  IF next_char \in {Some(GT), None} THEN set_state(reconsume_char(s), "CommentEnd")
        ELSE set_state(reconsume_char(emit_parse_error(s, "nested-comment")), "CommentEnd")

(* handle_comment_end_dash_state dropping the dash it had set aside.    *)
M_handle_comment_end_dash_state(s0) ==
    LET next_char == next_input_char(s0)
        s == consume_next_input_char(s0)
    IN  IF next_char = Some(DASH) THEN set_state(s, "CommentEnd")
        ELSE IF next_char = None THEN
            emit_token(emit_current_comment_token(emit_parse_error(s, "eof-in-comment")), EOF)
        ELSE set_state(reconsume_char(s), "Comment")

handle_comment_end_dash_state(s0) ==
    LET next_char == next_input_char(s0)
        s == consume_next_input_char(s0)
    IN  IF next_char = Some(DASH) THEN set_state(s, "CommentEnd")
        ELSE IF next_char = None THEN
            emit_token(emit_current_comment_token(emit_parse_error(s, "eof-in-comment")), EOF)
        ELSE set_state(reconsume_char(push_comment(s, <<DASH>>)), "Comment")

handle_comment_end_state(s0) ==
    LET next_char == next_input_char(s0)
        s == consume_next_input_char(s0)
    IN  IF next_char = Some(GT) THEN emit_current_comment_token(set_state(s, "Data"))
        ELSE IF next_char = Some(BANG) THEN set_state(s, "CommentEndBang")
        ELSE IF next_char = Some(DASH) THEN push_comment(s, <<DASH>>)
        ELSE IF next_char = None THEN
            emit_token(emit_current_comment_token(emit_parse_error(s, "eof-in-comment")), EOF)
        ELSE set_state(reconsume_char(push_comment(s, <<DASH, DASH>>)), "Comment")

handle_comment_end_bang_state(s0) ==
    LET next_char == next_input_char(s0)
        s == consume_next_input_char(s0)
    IN  IF next_char = Some(DASH) THEN
            set_state(push_comment(s, <<DASH, DASH, BANG>>), "CommentEndDash")
        ELSE IF next_char = Some(GT) THEN
            emit_current_comment_token(set_state(
                emit_parse_error(s, "incorrectly-closed-comment"), "Data"))
        ELSE IF next_char = None THEN
            emit_token(emit_current_comment_token(emit_parse_error(s, "eof-in-comment")), EOF)
        ELSE set_state(reconsume_char(push_comment(s, <<DASH, DASH, BANG>>)), "Comment")


(***************************************************************************)
(* Handlers: the DOCTYPE states.                                           *)
(***************************************************************************)
set_force_quirks(s) ==
    IF s.current_doctype_token.type = "DOCTYPE"
    THEN [s EXCEPT !.current_doctype_token.force_quirks = TRUE]
    ELSE s

eof_in_doctype(s) ==
    emit_token(emit_current_doctype_token(
        set_force_quirks(emit_parse_error(s, "eof-in-doctype"))), EOF)

eof_in_doctype_new_token(s) ==
    emit_token(emit_token(emit_parse_error(s, "eof-in-doctype"),
                          DOCTYPE(None, None, None, TRUE)), EOF)

push_doctype_name(s, ch) ==
    IF s.current_doctype_token.type = "DOCTYPE"
    THEN IF s.current_doctype_token.name = None THEN panic(s)
         ELSE [s EXCEPT !.current_doctype_token.name = Some(Append(@[1], ch))]
    ELSE s

push_public_id(s, ch) ==
    IF s.current_doctype_token.type = "DOCTYPE"
    THEN IF s.current_doctype_token.public_id = None THEN panic(s)
         ELSE [s EXCEPT !.current_doctype_token.public_id = Some(Append(@[1], ch))]
    ELSE s

push_system_id(s, ch) ==
    IF s.current_doctype_token.type = "DOCTYPE"
    THEN IF s.current_doctype_token.system_id = None THEN panic(s)
         ELSE [s EXCEPT !.current_doctype_token.system_id = Some(Append(@[1], ch))]
    ELSE s

(* new_public_id leaving the public identifier missing.                    *)
M_new_public_id(s) == s

new_public_id(s) ==
    IF s.current_doctype_token.type = "DOCTYPE"
    THEN [s EXCEPT !.current_doctype_token.public_id = Some(<<>>)]
    ELSE s

new_system_id(s) ==
    IF s.current_doctype_token.type = "DOCTYPE"
    THEN [s EXCEPT !.current_doctype_token.system_id = Some(<<>>)]
    ELSE s

bogus_doctype(s, err) ==
    set_state(reconsume_char(set_force_quirks(emit_parse_error(s, err))), "BogusDOCTYPE")

(* abrupt_doctype emitting the DOCTYPE token without setting force_quirks. *)
M_abrupt_doctype(s, err) ==
    emit_current_doctype_token(set_state(emit_parse_error(s, err), "Data"))

abrupt_doctype(s, err) ==
    emit_current_doctype_token(set_state(set_force_quirks(emit_parse_error(s, err)), "Data"))

handle_doctype_state(s0) ==
    LET next_char == next_input_char(s0)
        s == consume_next_input_char(s0)
    IN  IF IsWS(next_char) THEN set_state(s, "BeforeDOCTYPEName")
        ELSE IF next_char = Some(GT) THEN set_state(reconsume_char(s), "BeforeDOCTYPEName")
        ELSE IF next_char = None THEN eof_in_doctype_new_token(s)
        ELSE set_state(reconsume_char(
                emit_parse_error(s, "missing-whitespace-before-doctype-name")),
                "BeforeDOCTYPEName")

handle_before_doctype_name_state(s0) ==
    LET next_char == next_input_char(s0)
        s == consume_next_input_char(s0)
    IN  IF IsWS(next_char) THEN s
        ELSE IF next_char = None THEN eof_in_doctype_new_token(s)
        ELSE IF is_ascii_uppercase(next_char[1]) THEN
            set_state([s EXCEPT !.current_doctype_token =
                DOCTYPE(Some(<<to_ascii_lowercase(next_char[1])>>), None, None, FALSE)],
                "DOCTYPEName")
        ELSE IF next_char = Some(NUL) THEN
            set_state([emit_parse_error(s, "unexpected-null-character")
                EXCEPT !.current_doctype_token =
                    DOCTYPE(Some(<<REPLACEMENT>>), None, None, FALSE)], "DOCTYPEName")
        ELSE IF next_char = Some(GT) THEN
            emit_current_doctype_token(set_state(
                [emit_parse_error(s, "missing-doctype-name")
                    EXCEPT !.current_doctype_token = DOCTYPE(None, None, None, TRUE)],
                "Data"))
        ELSE set_state([s EXCEPT !.current_doctype_token =
                DOCTYPE(Some(<<next_char[1]>>), None, None, FALSE)], "DOCTYPEName")

(* handle_doctype_name_state storing an uppercase byte as it is.        *)
M_handle_doctype_name_state(s0) ==
    LET next_char == next_input_char(s0)
        s == consume_next_input_char(s0)
    IN  IF IsWS(next_char) THEN set_state(s, "AfterDOCTYPEName")
        ELSE IF next_char = Some(GT) THEN
            emit_current_doctype_token(set_state(s, "Data"))
        ELSE IF next_char = None THEN eof_in_doctype(s)
        ELSE IF next_char = Some(NUL) THEN
            push_doctype_name(emit_parse_error(s, "unexpected-null-character"), REPLACEMENT)
        ELSE push_doctype_name(s, next_char[1])

handle_doctype_name_state(s0) ==
    LET next_char == next_input_char(s0)
        s == consume_next_input_char(s0)
    IN  IF IsWS(next_char) THEN set_state(s, "AfterDOCTYPEName")
        ELSE IF next_char = Some(GT) THEN
            emit_current_doctype_token(set_state(s, "Data"))
        ELSE IF next_char = None THEN eof_in_doctype(s)
        ELSE IF is_ascii_uppercase(next_char[1]) THEN
            push_doctype_name(s, to_ascii_lowercase(next_char[1]))
        ELSE IF next_char = Some(NUL) THEN
            push_doctype_name(emit_parse_error(s, "unexpected-null-character"), REPLACEMENT)
        ELSE push_doctype_name(s, next_char[1])

handle_after_doctype_name_state(s0) ==
    LET next_char == next_input_char(s0)
        s == consume_next_input_char(s0)
    IN  IF IsWS(next_char) THEN s
        ELSE IF next_char = Some(GT) THEN
            emit_current_doctype_token(set_state(s, "Data"))
        ELSE IF next_char = None THEN eof_in_doctype(s)
        ELSE IF consume_if_expected_result(s, KW_PUBLIC, TRUE) THEN
            set_state(consume_if_expected(s, KW_PUBLIC, TRUE), "AfterDOCTYPEPublicKeyword")
        ELSE IF consume_if_expected_result(s, KW_SYSTEM, TRUE) THEN
            set_state(consume_if_expected(s, KW_SYSTEM, TRUE), "AfterDOCTYPESystemKeyword")
        ELSE bogus_doctype(s, "invalid-character-sequence-after-doctype-name")

handle_after_doctype_public_keyword_state(s0) ==
    LET next_char == next_input_char(s0)
        s == consume_next_input_char(s0)
    IN  IF IsWS(next_char) THEN set_state(s, "BeforeDOCTYPEPublicIdentifier")
        ELSE IF next_char = Some(DQUOTE) THEN
            set_state(new_public_id(emit_parse_error(s,
                "missing-whitespace-after-doctype-public-keyword")),
                "DOCTYPEPublicIdentifierDoubleQuoted")
        ELSE IF next_char = Some(SQUOTE) THEN
            set_state(new_public_id(emit_parse_error(s,
                "missing-whitespace-after-doctype-public-keyword")),
                "DOCTYPEPublicIdentifierSingleQuoted")
        ELSE IF next_char = Some(GT) THEN
            abrupt_doctype(s, "missing-doctype-public-identifier")
        ELSE IF next_char = None THEN eof_in_doctype(s)
        ELSE bogus_doctype(s, "missing-quote-before-doctype-public-identifier")

handle_before_doctype_public_id_state(s0) ==
    LET next_char == next_input_char(s0)
        s == consume_next_input_char(s0)
    IN  IF IsWS(next_char) THEN s
        ELSE IF next_char = Some(DQUOTE) THEN
            set_state(new_public_id(s), "DOCTYPEPublicIdentifierDoubleQuoted")
        ELSE IF next_char = Some(SQUOTE) THEN
            set_state(new_public_id(s), "DOCTYPEPublicIdentifierSingleQuoted")
        ELSE IF next_char = Some(GT) THEN
            abrupt_doctype(s, "missing-doctype-public-identifier")
        ELSE IF next_char = None THEN eof_in_doctype(s)
        ELSE bogus_doctype(s, "missing-quote-before-doctype-public-identifier")

doctype_public_id_quoted(s0, quote) ==
    LET next_char == next_input_char(s0)
        s == consume_next_input_char(s0)
    IN  IF next_char = Some(quote) THEN set_state(s, "AfterDOCTYPEPublicIdentifier")
        ELSE IF next_char = Some(NUL) THEN
            push_public_id(emit_parse_error(s, "unexpected-null-character"), REPLACEMENT)
        ELSE IF next_char = Some(GT) THEN
            abrupt_doctype(s, "abrupt-doctype-public-identifier")
        ELSE IF next_char = None THEN eof_in_doctype(s)
        ELSE push_public_id(s, REPLACEMENT)

handle_doctype_public_id_double_quoted_state(s) == doctype_public_id_quoted(s, DQUOTE)

handle_doctype_public_id_single_quoted_state(s) == doctype_public_id_quoted(s, SQUOTE)

handle_after_doctype_public_id_state(s0) ==
    LET next_char == next_input_char(s0)
        s == consume_next_input_char(s0)
    IN  IF IsWS(next_char) THEN set_state(s, "BetweenDOCTYPEPublicAndSystemIdentifiers")
        ELSE IF next_char = Some(GT) THEN
            emit_current_doctype_token(set_state(s, "Data"))
        ELSE IF next_char = Some(DQUOTE) THEN
            set_state(new_system_id(emit_parse_error(s,
                "missing-whitespace-between-doctype-public-and-system-identifiers")),
                "DOCTYPESystemIdentifierDoubleQuoted")
        ELSE IF next_char = Some(SQUOTE) THEN
            set_state(new_system_id(emit_parse_error(s,
                "missing-whitespace-between-doctype-public-and-system-identifiers")),
                "DOCTYPESystemIdentifierSingleQuoted")
        ELSE IF next_char = None THEN eof_in_doctype(s)
        ELSE bogus_doctype(s, "missing-quote-before-doctype-system-identifier")

handle_between_doctype_public_and_system_identifiers_state(s0) ==
    LET next_char == next_input_char(s0)
        s == consume_next_input_char(s0)
    IN  IF IsWS(next_char) THEN s
        ELSE IF next_char = Some(GT) THEN
            emit_current_doctype_token(set_state(s, "Data"))
        ELSE IF next_char = Some(DQUOTE) THEN
            set_state(new_system_id(s), "DOCTYPESystemIdentifierDoubleQuoted")
        ELSE IF next_char = Some(SQUOTE) THEN
            set_state(new_system_id(s), "DOCTYPESystemIdentifierSingleQuoted")
        ELSE IF next_char = None THEN eof_in_doctype(s)
        ELSE bogus_doctype(s, "missing-quote-before-doctype-system-identifier")

handle_after_doctype_system_keyword_state(s0) ==
    LET next_char == next_input_char(s0)
        s == consume_next_input_char(s0)
    IN  IF IsWS(next_char) THEN set_state(s, "BeforeDOCTYPESystemIdentifier")
        ELSE IF next_char = Some(DQUOTE) THEN
            set_state(new_system_id(emit_parse_error(s,
                "missing-whitespace-after-doctype-system-keyword")),
                "DOCTYPESystemIdentifierDoubleQuoted")
        ELSE IF next_char = Some(SQUOTE) THEN
            set_state(new_system_id(emit_parse_error(s,
                "missing-whitespace-after-doctype-system-keyword")),
                "DOCTYPESystemIdentifierSingleQuoted")
        ELSE IF next_char = Some(GT) THEN
            abrupt_doctype(s, "missing-doctype-system-identifier")
        ELSE IF next_char = None THEN eof_in_doctype(s)
        ELSE bogus_doctype(s, "missing-quote-before-doctype-system-identifier")

handle_before_doctype_system_identifier_state(s0) ==
    LET next_char == next_input_char(s0)
        s == consume_next_input_char(s0)
    IN  IF IsWS(next_char) THEN s
        ELSE IF next_char = Some(DQUOTE) THEN
            set_state(new_system_id(s), "DOCTYPESystemIdentifierDoubleQuoted")
        ELSE IF next_char = Some(SQUOTE) THEN
            set_state(new_system_id(s), "DOCTYPESystemIdentifierSingleQuoted")
        ELSE IF next_char = Some(GT) THEN
            abrupt_doctype(s, "missing-doctype-system-identifier")
        ELSE IF next_char = None THEN eof_in_doctype(s)
        ELSE bogus_doctype(s, "missing-quote-before-doctype-system-identifier")

handle_doctype_system_identifier_double_quoted_state(s0) ==
    LET next_char == next_input_char(s0)
        s == consume_next_input_char(s0)
    IN  IF next_char = Some(DQUOTE) THEN set_state(s, "AfterDOCTYPESystemIdentifier")
        ELSE IF next_char = Some(NUL) THEN
            push_system_id(emit_parse_error(s, "unexpected-null-character"), REPLACEMENT)
        ELSE IF next_char = Some(GT) THEN
            abrupt_doctype(s, "abrupt-doctype-system-identifier")
        ELSE IF next_char = None THEN eof_in_doctype(s)
        ELSE push_system_id(s, next_char[1])

(***************************************************************************)
(* Handlers with an empty body: they consume nothing and change nothing.   *)
(***************************************************************************)
handle_doctype_system_identifier_single_quoted_state(s) == s
handle_after_doctype_system_identifier_state(s) == s
handle_bogus_doctype_state(s) == s
handle_character_reference_state(s) == s


(***************************************************************************)
(* Handlers: RCDATA, RAWTEXT, ScriptData and PLAINTEXT.                    *)
(***************************************************************************)
(* handle_rcdata_state naming Data as the state to return to.              *)
M_handle_rcdata_state(s0) ==
    LET next_char == next_input_char(s0)
        s == consume_next_input_char(s0)
    IN  CASE next_char = Some(AMP) ->
               [s EXCEPT !.ret_state = "Data", !.state = "CharacterReference"]
          [] next_char = Some(LT) -> set_state(s, "RCDATALessThanSign")
          [] next_char = Some(NUL) ->
               emit_token(emit_parse_error(s, "unexpected-null-character"),
                          Character(REPLACEMENT))
          [] next_char = None -> emit_token(s, EOF)
          [] OTHER -> emit_token(s, Character(next_char[1]))

handle_rcdata_state(s0) ==
    LET next_char == next_input_char(s0)
        s == consume_next_input_char(s0)
    IN  CASE next_char = Some(AMP) ->
               [s EXCEPT !.ret_state = "RCDATA", !.state = "CharacterReference"]
          [] next_char = Some(LT) -> set_state(s, "RCDATALessThanSign")
          [] next_char = Some(NUL) ->
               emit_token(emit_parse_error(s, "unexpected-null-character"),
                          Character(REPLACEMENT))
          [] next_char = None -> emit_token(s, EOF)
          [] OTHER -> emit_token(s, Character(next_char[1]))

(* handle_rawtext_state passing U+0000 on as it is, as Data does.          *)
M_handle_rawtext_state(s0) ==
    LET next_char == next_input_char(s0)
        s == consume_next_input_char(s0)
    IN  CASE next_char = Some(LT) -> set_state(s, "RAWTEXTLessThanSign")
          [] next_char = Some(NUL) ->
               emit_token(emit_parse_error(s, "unexpected-null-character"),
                          Character(NUL))
          [] next_char = None -> emit_token(s, EOF)
          [] OTHER -> emit_token(s, Character(next_char[1]))

handle_rawtext_state(s0) ==
    LET next_char == next_input_char(s0)
        s == consume_next_input_char(s0)
    IN  CASE next_char = Some(LT) -> set_state(s, "RAWTEXTLessThanSign")
          [] next_char = Some(NUL) ->
               emit_token(emit_parse_error(s, "unexpected-null-character"),
                          Character(REPLACEMENT))
          [] next_char = None -> emit_token(s, EOF)
          [] OTHER -> emit_token(s, Character(next_char[1]))

handle_script_data_state(s0) ==
    LET next_char == next_input_char(s0)
        s == consume_next_input_char(s0)
    IN  CASE next_char = Some(LT) -> set_state(s, "ScriptDataLessThanSign")
          [] next_char = Some(NUL) ->
               emit_token(emit_parse_error(s, "unexpected-null-character"),
                          Character(REPLACEMENT))
          [] next_char = None -> emit_token(s, EOF)
          [] OTHER -> emit_token(s, Character(next_char[1]))

handle_plaintext_state(s0) ==
    LET next_char == next_input_char(s0)
        s == consume_next_input_char(s0)
    IN  CASE next_char = Some(NUL) ->
               emit_token(emit_parse_error(s, "unexpected-null-character"),
                          Character(REPLACEMENT))
          [] next_char = None -> emit_token(s, EOF)
          [] OTHER -> emit_token(s, Character(next_char[1]))

(***************************************************************************)
(* is_appropriate_end_tag_token, and the pushes of the end-tag-name states *)
(* (their `if let Some(Token::EndTag { tag_name, .. })`).                  *)
(***************************************************************************)
is_appropriate_end_tag_token(s) ==
    IF s.current_tag_token.type = "EndTag" /\ s.last_start_tag_token.type = "StartTag"
    THEN s.current_tag_token.tag_name = s.last_start_tag_token.tag_name
    ELSE FALSE

push_end_tag_name(s, ch) ==
    IF s.current_tag_token.type = "EndTag"
    THEN [s EXCEPT !.current_tag_token.tag_name = Append(@, ch)]
    ELSE s

push_temporary_buffer(s, ch) == [s EXCEPT !.temporary_buffer = Append(@, ch)]

RECURSIVE emit_characters(_, _)
emit_characters(s, chars) ==
    IF chars = <<>> THEN s
    ELSE emit_characters(emit_token(s, Character(Head(chars))), Tail(chars))

(***************************************************************************)
(* Handlers: the less-than-sign, end-tag-open and end-tag-name states of   *)
(* RCDATA, RAWTEXT and ScriptData.                                         *)
(***************************************************************************)
handle_rcdata_less_than_sign_state(s0) ==
    LET next_char == next_input_char(s0)
        s == consume_next_input_char(s0)
    IN  IF next_char = Some(SOLIDUS) THEN
            set_state([s EXCEPT !.temporary_buffer = <<>>], "RCDATAEndTagOpen")
        ELSE reconsume_char(set_state(emit_token(s, Character(LT)), "RCDATA"))

handle_rcdata_end_tag_open_state(s0) ==
    LET next_char == next_input_char(s0)
        s == consume_next_input_char(s0)
    IN  IF next_char # None /\ is_ascii_alphabetic(next_char[1]) THEN
            reconsume_char(set_state(
                [s EXCEPT !.current_tag_token = EndTag(<<>>, FALSE, <<>>)],
                "RCDATAEndTagName"))
        ELSE reconsume_char(set_state(
                emit_token(emit_token(s, Character(LT)), Character(SOLIDUS)), "RCDATA"))

handle_rcdata_end_tag_name_state_anything_else(s) ==
    reconsume_char(set_state(
        [emit_characters(emit_token(emit_token(s, Character(LT)), Character(SOLIDUS)),
                         s.temporary_buffer)
            EXCEPT !.temporary_buffer = <<>>],
        "RCDATA"))

(* handle_rcdata_end_tag_name_state taking every end tag as appropriate.   *)
M_handle_rcdata_end_tag_name_state(s0) ==
    LET next_char == next_input_char(s0)
        s == consume_next_input_char(s0)
    IN  IF IsWS(next_char) THEN set_state(s, "BeforeAttributeName")
        ELSE IF next_char = Some(SOLIDUS) THEN set_state(s, "SelfClosingStartTag")
        ELSE IF next_char = Some(GT) THEN
            IF s.current_tag_token # NoToken
            THEN emit_token(set_state(s, "Data"), s.current_tag_token)
            ELSE set_state(s, "Data")
        ELSE IF next_char # None /\ is_ascii_uppercase(next_char[1]) THEN
            push_temporary_buffer(push_end_tag_name(s, next_char[1] + CASE_OFFSET),
                                  next_char[1])
        ELSE IF next_char # None /\ is_ascii_lowercase(next_char[1]) THEN
            push_temporary_buffer(push_end_tag_name(s, next_char[1]), next_char[1])
        ELSE handle_rcdata_end_tag_name_state_anything_else(s)

handle_rcdata_end_tag_name_state(s0) ==
    LET next_char == next_input_char(s0)
        s == consume_next_input_char(s0)
    IN  IF IsWS(next_char) THEN
            IF is_appropriate_end_tag_token(s)
            THEN set_state(s, "BeforeAttributeName")
            ELSE handle_rcdata_end_tag_name_state_anything_else(s)
        ELSE IF next_char = Some(SOLIDUS) THEN
            IF is_appropriate_end_tag_token(s)
            THEN set_state(s, "SelfClosingStartTag")
            ELSE handle_rcdata_end_tag_name_state_anything_else(s)
        ELSE IF next_char = Some(GT) THEN
            IF is_appropriate_end_tag_token(s)
            THEN IF s.current_tag_token # NoToken
                 THEN emit_token(set_state(s, "Data"), s.current_tag_token)
                 ELSE set_state(s, "Data")
            ELSE handle_rcdata_end_tag_name_state_anything_else(s)
        ELSE IF next_char # None /\ is_ascii_uppercase(next_char[1]) THEN
            push_temporary_buffer(push_end_tag_name(s, next_char[1] + CASE_OFFSET),
                                  next_char[1])
        ELSE IF next_char # None /\ is_ascii_lowercase(next_char[1]) THEN
            push_temporary_buffer(push_end_tag_name(s, next_char[1]), next_char[1])
        ELSE handle_rcdata_end_tag_name_state_anything_else(s)

handle_rawtext_less_than_sign_state(s0) ==
    LET next_char == next_input_char(s0)
        s == consume_next_input_char(s0)
    IN  IF next_char = Some(SOLIDUS) THEN
            set_state([s EXCEPT !.temporary_buffer = <<>>], "RAWTEXTEndTagOpen")
        ELSE reconsume_char(set_state(emit_token(s, Character(LT)), "RAWTEXT"))

handle_rawtext_end_tag_open_state(s0) ==
    LET next_char == next_input_char(s0)
        s == consume_next_input_char(s0)
    IN  IF next_char # None /\ is_ascii_alphabetic(next_char[1]) THEN
            reconsume_char(set_state(
                [s EXCEPT !.current_tag_token = EndTag(<<>>, FALSE, <<>>)],
                "RAWTEXTEndTagName"))
        ELSE reconsume_char(set_state(
                emit_token(emit_token(s, Character(LT)), Character(SOLIDUS)), "RAWTEXT"))

(* handle_rawtext_end_tag_name_state_anything_else emitting the buffer     *)
(* lowercased.                                                             *)
M_handle_rawtext_end_tag_name_state_anything_else(s) ==
    reconsume_char(set_state(
        [emit_characters(emit_token(emit_token(s, Character(LT)), Character(SOLIDUS)),
                         [i \in 1..Len(s.temporary_buffer) |->
                             to_ascii_lowercase(s.temporary_buffer[i])])
            EXCEPT !.temporary_buffer = <<>>],
        "RAWTEXT"))

handle_rawtext_end_tag_name_state_anything_else(s) ==
    reconsume_char(set_state(
        [emit_characters(emit_token(emit_token(s, Character(LT)), Character(SOLIDUS)),
                         s.temporary_buffer)
            EXCEPT !.temporary_buffer = <<>>],
        "RAWTEXT"))

handle_rawtext_end_tag_name_state(s0) ==
    LET next_char == next_input_char(s0)
        s == consume_next_input_char(s0)
    IN  IF IsWS(next_char) THEN
            IF is_appropriate_end_tag_token(s)
            THEN set_state(s, "BeforeAttributeName")
            ELSE handle_rawtext_end_tag_name_state_anything_else(s)
        ELSE IF next_char = Some(SOLIDUS) THEN
            IF is_appropriate_end_tag_token(s)
            THEN set_state(s, "SelfClosingStartTag")
            ELSE handle_rawtext_end_tag_name_state_anything_else(s)
        ELSE IF next_char = Some(GT) THEN
            IF is_appropriate_end_tag_token(s)
            THEN IF s.current_tag_token # NoToken
                 THEN emit_token(set_state(s, "Data"), s.current_tag_token)
                 ELSE set_state(s, "Data")
            ELSE handle_rawtext_end_tag_name_state_anything_else(s)
        ELSE IF next_char # None /\ is_ascii_uppercase(next_char[1]) THEN
            push_temporary_buffer(push_end_tag_name(s, next_char[1] + CASE_OFFSET),
                                  next_char[1])
        ELSE IF next_char # None /\ is_ascii_lowercase(next_char[1]) THEN
            push_temporary_buffer(push_end_tag_name(s, next_char[1]), next_char[1])
        ELSE handle_rawtext_end_tag_name_state_anything_else(s)

handle_script_data_less_than_sign_state(s0) ==
    LET next_char == next_input_char(s0)
        s == consume_next_input_char(s0)
    IN  IF next_char = Some(SOLIDUS) THEN
            set_state([s EXCEPT !.temporary_buffer = <<>>], "ScriptDataEndTagOpen")
        ELSE IF next_char = Some(BANG) THEN
            emit_token(emit_token(set_state(s, "ScriptDataEscapeStart"),
                                  Character(LT)), Character(BANG))
        ELSE reconsume_char(emit_token(s, Character(LT)))

handle_script_data_end_tag_open_state(s0) ==
    LET next_char == next_input_char(s0)
        s == consume_next_input_char(s0)
    IN  IF next_char # None /\ is_ascii_alphabetic(next_char[1]) THEN
            reconsume_char(set_state(
                [s EXCEPT !.current_tag_token = EndTag(<<>>, FALSE, <<>>)],
                "ScriptDataEndTagName"))
        ELSE reconsume_char(set_state(
                emit_token(emit_token(s, Character(LT)), Character(SOLIDUS)),
                "ScriptData"))

handle_script_end_tag_name_state_anything_else(s) ==
    reconsume_char(set_state(
        [emit_characters(emit_token(emit_token(s, Character(LT)), Character(SOLIDUS)),
                         s.temporary_buffer)
            EXCEPT !.temporary_buffer = <<>>],
        "ScriptData"))

handle_script_data_end_tag_name_state(s0) ==
    LET next_char == next_input_char(s0)
        s == consume_next_input_char(s0)
    IN  IF IsWS(next_char) THEN
            IF is_appropriate_end_tag_token(s)
            THEN set_state(s, "BeforeAttributeName")
            ELSE handle_script_end_tag_name_state_anything_else(s)
        ELSE IF next_char = Some(SOLIDUS) THEN
            IF is_appropriate_end_tag_token(s)
            THEN set_state(s, "SelfClosingStartTag")
            ELSE handle_script_end_tag_name_state_anything_else(s)
        ELSE IF next_char = Some(GT) THEN
            IF is_appropriate_end_tag_token(s)
            THEN IF s.current_tag_token # NoToken
                 THEN emit_token(set_state(s, "Data"), s.current_tag_token)
                 ELSE set_state(s, "Data")
            ELSE handle_script_end_tag_name_state_anything_else(s)
        ELSE IF next_char # None /\ is_ascii_uppercase(next_char[1]) THEN
            push_temporary_buffer(push_end_tag_name(s, next_char[1] + CASE_OFFSET),
                                  next_char[1])
        ELSE IF next_char # None /\ is_ascii_lowercase(next_char[1]) THEN
            push_temporary_buffer(push_end_tag_name(s, next_char[1]), next_char[1])
        ELSE handle_script_end_tag_name_state_anything_else(s)

(***************************************************************************)
(* Handlers: the escaped and double-escaped states of ScriptData.          *)
(***************************************************************************)
SCRIPT == <<115, 99, 114, 105, 112, 116>>

eof_in_script_comment(s) ==
    emit_token(emit_parse_error(s, "eof-in-script-html-comment-like-text"), EOF)

handle_script_data_escape_start_state(s0) ==
    LET next_char == next_input_char(s0)
        s == consume_next_input_char(s0)
    IN  IF next_char = Some(DASH) THEN
            emit_token(set_state(s, "ScriptDataEscapeStartDash"), Character(DASH))
        ELSE reconsume_char(set_state(s, "ScriptData"))

handle_script_data_escape_start_dash_state(s0) ==
    LET next_char == next_input_char(s0)
        s == consume_next_input_char(s0)
    IN  IF next_char = Some(DASH) THEN
            emit_token(set_state(s, "ScriptDataEscapedDashDash"), Character(DASH))
        ELSE reconsume_char(set_state(s, "ScriptData"))

handle_script_data_escaped_state(s0) ==
    LET next_char == next_input_char(s0)
        s == consume_next_input_char(s0)
    IN  CASE next_char = Some(DASH) ->
               emit_token(set_state(s, "ScriptDataEscapedDash"), Character(DASH))
          [] next_char = Some(LT) -> set_state(s, "ScriptDataEscapedLessThanSign")
          [] next_char = Some(NUL) ->
               emit_token(emit_parse_error(s, "unexpected-null-character"),
                          Character(REPLACEMENT))
          [] next_char = None -> eof_in_script_comment(s)
          [] OTHER -> emit_token(s, Character(next_char[1]))

handle_script_data_escaped_dash_state(s0) ==
    LET next_char == next_input_char(s0)
        s == consume_next_input_char(s0)
    IN  CASE next_char = Some(DASH) ->
               emit_token(set_state(s, "ScriptDataEscapedDashDash"), Character(DASH))
          [] next_char = Some(LT) -> set_state(s, "ScriptDataEscapedLessThanSign")
          [] next_char = Some(NUL) ->
               emit_token(set_state(emit_parse_error(s, "unexpected-null-character"),
                                    "ScriptDataEscaped"), Character(REPLACEMENT))
          [] next_char = None -> eof_in_script_comment(s)
          [] OTHER -> emit_token(set_state(s, "ScriptDataEscaped"),
                                 Character(next_char[1]))

handle_script_data_escaped_dash_dash_state(s0) ==
    LET next_char == next_input_char(s0)
        s == consume_next_input_char(s0)
    IN  CASE next_char = Some(DASH) -> emit_token(s, Character(DASH))
          [] next_char = Some(LT) -> set_state(s, "ScriptDataEscapedLessThanSign")
          [] next_char = Some(GT) ->
               emit_token(set_state(s, "ScriptData"), Character(GT))
          [] next_char = Some(NUL) ->
               emit_token(set_state(emit_parse_error(s, "unexpected-null-character"),
                                    "ScriptDataEscaped"), Character(REPLACEMENT))
          [] next_char = None -> eof_in_script_comment(s)
          [] OTHER -> emit_token(set_state(s, "ScriptDataEscaped"),
                                 Character(next_char[1]))

handle_script_data_escaped_less_than_sign_state(s0) ==
    LET next_char == next_input_char(s0)
        s == consume_next_input_char(s0)
    IN  IF next_char = Some(SOLIDUS) THEN
            set_state([s EXCEPT !.temporary_buffer = <<>>], "ScriptDataEscapedEndTagOpen")
        ELSE IF next_char # None /\ is_ascii_alphabetic(next_char[1]) THEN
            reconsume_char(set_state(
                emit_token([s EXCEPT !.temporary_buffer = <<>>], Character(LT)),
                "ScriptDataDoubleEscapeStart"))
        ELSE reconsume_char(set_state(emit_token(s, Character(LT)), "ScriptDataEscaped"))

handle_script_data_escaped_end_tag_open_state(s0) ==
    LET next_char == next_input_char(s0)
        s == consume_next_input_char(s0)
    IN  IF next_char # None /\ is_ascii_alphabetic(next_char[1]) THEN
            reconsume_char(set_state(
                [s EXCEPT !.current_tag_token = EndTag(<<>>, FALSE, <<>>)],
                "ScriptDataEscapedEndTagName"))
        ELSE reconsume_char(set_state(
                emit_token(emit_token(s, Character(LT)), Character(SOLIDUS)),
                "ScriptDataEscaped"))

handle_script_data_escaped_end_tag_name_state_anything_else(s) ==
    reconsume_char(set_state(
        [emit_characters(emit_token(emit_token(s, Character(LT)), Character(SOLIDUS)),
                         s.temporary_buffer)
            EXCEPT !.temporary_buffer = <<>>],
        "ScriptDataEscaped"))

handle_script_data_escaped_end_tag_name_state(s0) ==
    LET next_char == next_input_char(s0)
        s == consume_next_input_char(s0)
    IN  IF IsWS(next_char) THEN
            IF is_appropriate_end_tag_token(s)
            THEN set_state(s, "BeforeAttributeName")
            ELSE handle_script_data_escaped_end_tag_name_state_anything_else(s)
        ELSE IF next_char = Some(SOLIDUS) THEN
            IF is_appropriate_end_tag_token(s)
            THEN set_state(s, "SelfClosingStartTag")
            ELSE handle_script_data_escaped_end_tag_name_state_anything_else(s)
        ELSE IF next_char = Some(GT) THEN
            IF is_appropriate_end_tag_token(s)
            THEN IF s.current_tag_token # NoToken
                 THEN emit_token(set_state(s, "Data"), s.current_tag_token)
                 ELSE set_state(s, "Data")
            ELSE handle_script_data_escaped_end_tag_name_state_anything_else(s)
        ELSE IF next_char # None /\ is_ascii_uppercase(next_char[1]) THEN
            push_temporary_buffer(push_end_tag_name(s, next_char[1] + CASE_OFFSET),
                                  next_char[1])
        ELSE IF next_char # None /\ is_ascii_lowercase(next_char[1]) THEN
            push_temporary_buffer(push_end_tag_name(s, next_char[1]), next_char[1])
        ELSE handle_script_data_escaped_end_tag_name_state_anything_else(s)

(* handle_script_data_double_escape_start_state taking any buffer that     *)
(* begins with `script` for the word.                                      *)
M_handle_script_data_double_escape_start_state(s0) ==
    LET next_char == next_input_char(s0)
        s == consume_next_input_char(s0)
    IN  IF IsWS(next_char) \/ next_char \in {Some(SOLIDUS), Some(GT)} THEN
            emit_token(
                set_state(s, IF (Len(s.temporary_buffer) >= Len(SCRIPT)
                                 /\ SubSeq(s.temporary_buffer, 1, Len(SCRIPT)) = SCRIPT)
                             THEN "ScriptDataDoubleEscaped"
                             ELSE "ScriptDataEscaped"),
                Character(next_char[1]))
        ELSE IF next_char # None /\ is_ascii_uppercase(next_char[1]) THEN
            emit_token(push_temporary_buffer(s, next_char[1] + CASE_OFFSET),
                       Character(next_char[1]))
        ELSE IF next_char # None /\ is_ascii_lowercase(next_char[1]) THEN
            emit_token(push_temporary_buffer(s, next_char[1]), Character(next_char[1]))
        ELSE reconsume_char(set_state(s, "ScriptDataEscaped"))

handle_script_data_double_escape_start_state(s0) ==
    LET next_char == next_input_char(s0)
        s == consume_next_input_char(s0)
    IN  IF IsWS(next_char) \/ next_char \in {Some(SOLIDUS), Some(GT)} THEN
            emit_token(
                set_state(s, IF s.temporary_buffer = SCRIPT
                             THEN "ScriptDataDoubleEscaped"
                             ELSE "ScriptDataEscaped"),
                Character(next_char[1]))
        ELSE IF next_char # None /\ is_ascii_uppercase(next_char[1]) THEN
            emit_token(push_temporary_buffer(s, next_char[1] + CASE_OFFSET),
                       Character(next_char[1]))
        ELSE IF next_char # None /\ is_ascii_lowercase(next_char[1]) THEN
            emit_token(push_temporary_buffer(s, next_char[1]), Character(next_char[1]))
        ELSE reconsume_char(set_state(s, "ScriptDataEscaped"))

handle_script_data_double_escaped_state(s0) ==
    LET next_char == next_input_char(s0)
        s == consume_next_input_char(s0)
    IN  CASE next_char = Some(DASH) ->
               emit_token(set_state(s, "ScriptDataDoubleEscapedDash"), Character(DASH))
          [] next_char = Some(LT) ->
               emit_token(set_state(s, "ScriptDataDoubleEscapedLessThanSign"),
                          Character(LT))
          [] next_char = Some(NUL) ->
               emit_token(emit_parse_error(s, "unexpected-null-character"),
                          Character(REPLACEMENT))
          [] next_char = None -> eof_in_script_comment(s)
          [] OTHER -> emit_token(s, Character(next_char[1]))

handle_script_data_double_escaped_dash_state(s0) ==
    LET next_char == next_input_char(s0)
        s == consume_next_input_char(s0)
    IN  CASE next_char = Some(DASH) ->
               emit_token(set_state(s, "ScriptDataDoubleEscapedDashDash"),
                          Character(DASH))
          [] next_char = Some(LT) ->
               emit_token(set_state(s, "ScriptDataDoubleEscapedLessThanSign"),
                          Character(LT))
          [] next_char = Some(NUL) ->
               emit_token(set_state(emit_parse_error(s, "unexpected-null-character"),
                                    "ScriptDataDoubleEscaped"), Character(REPLACEMENT))
          [] next_char = None -> eof_in_script_comment(s)
          [] OTHER -> emit_token(set_state(s, "ScriptDataDoubleEscaped"),
                                 Character(next_char[1]))

handle_script_data_double_escaped_dash_dash_state(s0) ==
    LET next_char == next_input_char(s0)
        s == consume_next_input_char(s0)
    IN  CASE next_char = Some(DASH) -> emit_token(s, Character(DASH))
          [] next_char = Some(LT) ->
               emit_token(set_state(s, "ScriptDataDoubleEscapedLessThanSign"),
                          Character(LT))
          [] next_char = Some(GT) ->
               emit_token(set_state(s, "ScriptData"), Character(GT))
          [] next_char = Some(NUL) ->
               emit_token(set_state(emit_parse_error(s, "unexpected-null-character"),
                                    "ScriptDataDoubleEscaped"), Character(REPLACEMENT))
          [] next_char = None -> eof_in_script_comment(s)
          [] OTHER -> emit_token(set_state(s, "ScriptDataDoubleEscaped"),
                                 Character(next_char[1]))

handle_script_data_double_escaped_less_than_sign_state(s0) ==
    LET next_char == next_input_char(s0)
        s == consume_next_input_char(s0)
    IN  IF next_char = Some(SOLIDUS) THEN
            emit_token(set_state([s EXCEPT !.temporary_buffer = <<>>],
                                 "ScriptDataDoubleEscapeEnd"), Character(SOLIDUS))
        ELSE reconsume_char(set_state(s, "ScriptDataDoubleEscaped"))

handle_script_data_double_escape_end_state(s0) ==
    LET next_char == next_input_char(s0)
        s == consume_next_input_char(s0)
    IN  IF IsWS(next_char) \/ next_char \in {Some(SOLIDUS), Some(GT)} THEN
            emit_token(
                set_state(s, IF s.temporary_buffer = SCRIPT
                             THEN "ScriptDataEscaped"
                             ELSE "ScriptDataDoubleEscaped"),
                Character(next_char[1]))
        ELSE IF next_char # None /\ is_ascii_uppercase(next_char[1]) THEN
            emit_token(push_temporary_buffer(s, next_char[1] + CASE_OFFSET),
                       Character(next_char[1]))
        ELSE IF next_char # None /\ is_ascii_lowercase(next_char[1]) THEN
            emit_token(push_temporary_buffer(s, next_char[1]), Character(next_char[1]))
        ELSE reconsume_char(set_state(s, "ScriptDataDoubleEscaped"))

(***************************************************************************)
(* The inputs.  Tokenizer::new takes any byte slice; the model draws it    *)
(* from four bounded families and the scenarios of the specification.      *)
(***************************************************************************)
MaxLen == 3
MaxNameLen == 2
MaxAttrs == 2
MaxCommentLen == 4
MaxDoctypeTail == 2

Strs(A, n) == UNION {[1..k -> A] : k \in 0..n}

RECURSIVE Flatten(_)
Flatten(ss) == IF ss = <<>> THEN <<>> ELSE Head(ss) \o Flatten(Tail(ss))

GeneralAlphabet ==
    {LT, GT, SOLIDUS, BANG, DASH, QMARK, EQ, DQUOTE, SQUOTE, SPACE, AMP, NUL, 97, 65}
GeneralInputs == Strs(GeneralAlphabet, MaxLen)

(* <NAME> and </NAME>, NAME a letter followed by letters, digits, <, = or  *)
(* a byte above 0x7F.                                                      *)
NameFirst == {112, 80}
NameRest == {112, 80, 49, LT, EQ, 233}
TagNames == {<<f>> \o r : f \in NameFirst, r \in Strs(NameRest, MaxNameLen - 1)}
NameInputs ==
    {open \o n \o <<GT>> : open \in {<<LT>>, <<LT, SOLIDUS>>}, n \in TagNames}

(* <x or </x, then attributes written  name, name=1, name="1" or name='2',  *)
(* each after one space, then > or /> with or without a space before it.   *)
AttrNames == {<<97>>, <<65>>, <<98>>}
AttrValues == {<<>>, <<EQ, 49>>, <<EQ, DQUOTE, 49, DQUOTE>>, <<EQ, SQUOTE, 50, SQUOTE>>}
AttrWritings == {<<SPACE>> \o n \o v : n \in AttrNames, v \in AttrValues}
TagClosers == {<<GT>>, <<SPACE, GT>>, <<SOLIDUS, GT>>, <<SPACE, SOLIDUS, GT>>}
AttrInputs ==
    {open \o Flatten(ws) \o close :
        open \in {<<LT, 120>>, <<LT, SOLIDUS, 120>>},
        ws \in Strs(AttrWritings, MaxAttrs),
        close \in TagClosers}

(* <!--D--> for every D over <, !, -, >, U+0000 and a byte above 0x7F,     *)
(* alone or with a character of text before it and one after it.          *)
CommentAlphabet == {LT, BANG, DASH, GT, NUL, 233}
TextBefore == {<<>>, <<97>>}
TextAfter == {<<>>, <<98>>}
CommentInputs ==
    {tx[1] \o <<LT, BANG, DASH, DASH>> \o d \o <<DASH, DASH, GT>> \o tx[2] :
        tx \in {<<<<>>, <<>>>>, <<<<97>>, <<98>>>>},
        d \in Strs(CommentAlphabet, MaxCommentLen)}

(* A DOCTYPE up to one of its states, then a tail of a few pieces.         *)
DoctypePrefixes ==
    {<<60, 33, 68, 79, 67, 84, 89, 80, 69>>,
     <<60, 33, 68, 79, 67, 84, 89, 80, 69, 32, 104>>,
     <<60, 33, 68, 79, 67, 84, 89, 80, 69, 32, 104, 32>>,
     <<60, 33, 68, 79, 67, 84, 89, 80, 69, 32, 104, 32, 120, 80, 85, 66, 76, 73, 67>>,
     <<60, 33, 68, 79, 67, 84, 89, 80, 69, 32, 104, 32, 120, 80, 85, 66, 76, 73, 67, 32>>,
     <<60, 33, 68, 79, 67, 84, 89, 80, 69, 32, 104, 32, 120, 80, 85, 66, 76, 73, 67, 32, 34>>,
     <<60, 33, 68, 79, 67, 84, 89, 80, 69, 32, 104, 32, 120, 80, 85, 66, 76, 73, 67, 32, 39>>,
     <<60, 33, 68, 79, 67, 84, 89, 80, 69, 32, 104, 32, 120, 80, 85, 66, 76, 73, 67, 32, 34, 34>>,
     <<60, 33, 68, 79, 67, 84, 89, 80, 69, 32, 104, 32, 120, 80, 85, 66, 76, 73, 67, 32, 34, 34, 32>>,
     <<60, 33, 68, 79, 67, 84, 89, 80, 69, 32, 104, 32, 120, 83, 89, 83, 84, 69, 77>>,
     <<60, 33, 68, 79, 67, 84, 89, 80, 69, 32, 104, 32, 120, 83, 89, 83, 84, 69, 77, 32>>,
     <<60, 33, 68, 79, 67, 84, 89, 80, 69, 32, 104, 32, 120, 83, 89, 83, 84, 69, 77, 32, 34>>,
     <<60, 33, 68, 79, 67, 84, 89, 80, 69, 32, 104, 32, 120, 83, 89, 83, 84, 69, 77, 32, 39>>,
     <<60, 33, 68, 79, 67, 84, 89, 80, 69, 32, 104, 32, 120, 83, 89, 83, 84, 69, 77, 32, 34, 34>>}
DoctypePieces ==
    {<<32>>,
     <<104>>,
     <<72>>,
     <<62>>,
     <<34>>,
     <<39>>,
     <<0>>,
     <<112, 85, 98, 76, 105, 67>>,
     <<115, 121, 115, 116, 101, 109>>}
DoctypeInputs ==
    {p \o Flatten(tl) : p \in DoctypePrefixes, tl \in Strs(DoctypePieces, MaxDoctypeTail)}

Scenarios ==
    {<<60, 112, 62, 104, 105, 60, 47, 112, 62>>,
     <<60, 98, 114, 32, 47, 62>>,
     <<60, 97, 32, 104, 114, 101, 102, 61, 34, 120, 38, 97, 109, 112, 59, 121, 34, 62>>,
     <<60, 33, 68, 79, 67, 84, 89, 80, 69, 32, 104, 116, 109, 108, 62>>,
     <<60, 33, 45, 45, 97, 60, 33, 45, 45, 98, 45, 45, 62>>,
     <<60, 120, 32, 97, 61, 34, 49, 34, 32, 97, 61, 34, 50, 34, 62>>,
     <<60, 33, 68, 79, 67, 84, 89, 80, 69, 104, 116, 109, 108, 62>>,
     <<60, 33, 91, 67, 68, 65, 84, 65, 91, 120, 93, 93, 62>>,
     <<97, 38, 97, 109, 112, 59, 98>>,
     <<60, 88, 32, 97, 32, 97, 32, 98, 62>>}

(* <!DOCTYPE in several letter cases, whitespace, a name and >.            *)
DoctypeKeywords ==
    {<<68, 79, 67, 84, 89, 80, 69>>,
     <<100, 111, 99, 116, 121, 112, 101>>,
     <<68, 111, 99, 84, 121, 112, 101>>}
DoctypeSpaces == {<<SPACE>>, <<TAB>>, <<LF>>, <<FF>>, <<SPACE, SPACE>>, <<LF, SPACE>>}
DoctypeNames == Strs({104, 72, 49, 233}, MaxNameLen) \ {<<>>}
DoctypeNameInputs ==
    {<<LT, BANG>> \o kw \o ws \o n \o <<GT>> :
        kw \in DoctypeKeywords, ws \in DoctypeSpaces, n \in DoctypeNames}

(* Text without <, & and U+0000.                                           *)
TextAlphabet == {GT, SOLIDUS, SPACE, LF, 97, 90}
TextInputs == Strs(TextAlphabet, MaxLen)

(* A comment opened and never closed: <!-- and a few bytes, then the end.  *)
UnclosedCommentInputs ==
    {<<LT, BANG, DASH, DASH>> \o d : d \in Strs({97, DASH, BANG}, MaxNameLen)}

(* A tag whose first attribute is written with a leading `=`.              *)
EqualsNameInputs ==
    {<<LT, 120, SPACE, EQ>> \o d \o <<GT>> : d \in Strs({97, EQ}, MaxNameLen)}

(* A tag with up to MaxBareAttrs attributes written as bare names.         *)
MaxBareAttrs == 3
BareNameInputs ==
    {<<LT, 120>> \o Flatten([i \in 1..Len(ns) |-> <<SPACE>> \o ns[i]]) \o <<GT>> :
        ns \in Strs(AttrNames, MaxBareAttrs)}

(* A tag name, a `/`, a few bytes and `>`.                                 *)
SolidusInputs ==
    {<<LT, 120, SOLIDUS>> \o d \o <<GT>> : d \in Strs({97, SOLIDUS, SPACE}, MaxNameLen)}

Inputs ==
    GeneralInputs \cup NameInputs \cup AttrInputs \cup CommentInputs
        \cup DoctypeInputs \cup DoctypeNameInputs \cup TextInputs \cup Scenarios
        \cup UnclosedCommentInputs \cup EqualsNameInputs \cup BareNameInputs
        \cup SolidusInputs

(***************************************************************************)
(* Tokenizer::new, the arms of the loop of Tokenizer::run, and its return. *)
(***************************************************************************)
Holds(r) ==
    /\ input_stream = r.input_stream
    /\ state = r.state
    /\ ret_state = r.ret_state
    /\ current_tag_token = r.current_tag_token
    /\ current_comment_token = r.current_comment_token
    /\ current_doctype_token = r.current_doctype_token
    /\ tokens = r.tokens
    /\ temporary_buffer = r.temporary_buffer
    /\ last_start_tag_token = r.last_start_tag_token
    /\ current_tag_name = r.current_tag_name
    /\ current_tag_value = r.current_tag_value
    /\ parse_errors = r.parse_errors
    /\ pc = r.pc
    /\ reconsumed = r.reconsumed

Apply(r) ==
    /\ input_stream' = r.input_stream
    /\ state' = r.state
    /\ ret_state' = r.ret_state
    /\ current_tag_token' = r.current_tag_token
    /\ current_comment_token' = r.current_comment_token
    /\ current_doctype_token' = r.current_doctype_token
    /\ tokens' = r.tokens
    /\ temporary_buffer' = r.temporary_buffer
    /\ last_start_tag_token' = r.last_start_tag_token
    /\ current_tag_name' = r.current_tag_name
    /\ current_tag_value' = r.current_tag_value
    /\ parse_errors' = r.parse_errors
    /\ pc' = r.pc
    /\ reconsumed' = r.reconsumed
    /\ UNCHANGED tc_vars

(* TreeConstructor::new, no reset_insertion_mode under way.                *)
TreeConstructor_new ==
    /\ insertion_mode = "Initial"
    /\ stack_of_open_elements = <<>>
    /\ is_fragment_case = FALSE
    /\ context_element = None
    /\ head_element_created = FALSE
    /\ current_template_insertion_mode = "InTemplate"
    /\ last = FALSE
    /\ node = None
    /\ ancestor = None
    /\ sel_pc = "idle"

Init == (\E input \in Inputs : Holds(Tokenizer_new(input))) /\ TreeConstructor_new

Running(st) == pc = "run" /\ ~is_eof(input_stream) /\ state = st

run_Data ==
    Running("Data") /\ Apply(handle_data_state(Self))

run_TagOpen ==
    Running("TagOpen") /\ Apply(handle_tag_open_state(Self))

run_EndTagOpen ==
    Running("EndTagOpen") /\ Apply(handle_end_tag_open_state(Self))

run_TagName ==
    Running("TagName") /\ Apply(handle_tag_name_state(Self))

run_BeforeAttributeName ==
    Running("BeforeAttributeName") /\ Apply(handle_before_attribute_name_state(Self))

run_AttributeName ==
    Running("AttributeName") /\ Apply(handle_attribute_name_state(Self))

run_AfterAttributeName ==
    Running("AfterAttributeName") /\ Apply(handle_after_attribute_name_state(Self))

run_BeforeAttributeValue ==
    Running("BeforeAttributeValue") /\ Apply(handle_before_attribute_value_state(Self))

run_AttributeValueDoubleQuoted ==
    Running("AttributeValueDoubleQuoted") /\ Apply(handle_attribute_value_double_quoted_state(Self))

run_AttributeValueSingleQuoted ==
    Running("AttributeValueSingleQuoted") /\ Apply(handle_attribute_value_single_quoted_state(Self))

run_AttributeValueUnquoted ==
    Running("AttributeValueUnquoted") /\ Apply(handle_attribute_value_unquoted_state(Self))

run_AfterAttributeValueQuoted ==
    Running("AfterAttributeValueQuoted") /\ Apply(handle_after_attribute_value_quoted_state(Self))

run_SelfClosingStartTag ==
    Running("SelfClosingStartTag") /\ Apply(handle_self_closing_start_tag_state(Self))

run_BogusComment ==
    Running("BogusComment") /\ Apply(handle_bogus_comment_state(Self))

run_MarkupDeclarationOpen ==
    Running("MarkupDeclarationOpen") /\ Apply(handle_markup_declaration_open_state(Self))

run_CommentStart ==
    Running("CommentStart") /\ Apply(handle_comment_start_state(Self))

run_CommentStartDash ==
    Running("CommentStartDash") /\ Apply(handle_comment_start_dash_state(Self))

run_Comment ==
    Running("Comment") /\ Apply(handle_comment_state(Self))

run_CommentLessThanSign ==
    Running("CommentLessThanSign") /\ Apply(handle_comment_less_than_sign_state(Self))

run_CommentLessThanSignBang ==
    Running("CommentLessThanSignBang") /\ Apply(handle_comment_less_than_sign_bang_state(Self))

run_CommentLessThanSignBangDash ==
    Running("CommentLessThanSignBangDash") /\ Apply(handle_comment_less_than_sign_bang_dash_state(Self))

run_CommentLessThanSignBangDashDash ==
    Running("CommentLessThanSignBangDashDash") /\ Apply(handle_comment_less_than_sign_bang_dash_dash_state(Self))

run_CommentEndDash ==
    Running("CommentEndDash") /\ Apply(handle_comment_end_dash_state(Self))

run_CommentEnd ==
    Running("CommentEnd") /\ Apply(handle_comment_end_state(Self))

run_CommentEndBang ==
    Running("CommentEndBang") /\ Apply(handle_comment_end_bang_state(Self))

run_DOCTYPE ==
    Running("DOCTYPE") /\ Apply(handle_doctype_state(Self))

run_BeforeDOCTYPEName ==
    Running("BeforeDOCTYPEName") /\ Apply(handle_before_doctype_name_state(Self))

run_DOCTYPEName ==
    Running("DOCTYPEName") /\ Apply(handle_doctype_name_state(Self))

run_AfterDOCTYPEName ==
    Running("AfterDOCTYPEName") /\ Apply(handle_after_doctype_name_state(Self))

run_AfterDOCTYPEPublicKeyword ==
    Running("AfterDOCTYPEPublicKeyword") /\ Apply(handle_after_doctype_public_keyword_state(Self))

run_BeforeDOCTYPEPublicIdentifier ==
    Running("BeforeDOCTYPEPublicIdentifier") /\ Apply(handle_before_doctype_public_id_state(Self))

run_DOCTYPEPublicIdentifierDoubleQuoted ==
    Running("DOCTYPEPublicIdentifierDoubleQuoted") /\ Apply(handle_doctype_public_id_double_quoted_state(Self))

run_DOCTYPEPublicIdentifierSingleQuoted ==
    Running("DOCTYPEPublicIdentifierSingleQuoted") /\ Apply(handle_doctype_public_id_single_quoted_state(Self))

run_AfterDOCTYPEPublicIdentifier ==
    Running("AfterDOCTYPEPublicIdentifier") /\ Apply(handle_after_doctype_public_id_state(Self))

run_BetweenDOCTYPEPublicAndSystemIdentifiers ==
    Running("BetweenDOCTYPEPublicAndSystemIdentifiers") /\ Apply(handle_between_doctype_public_and_system_identifiers_state(Self))

run_AfterDOCTYPESystemKeyword ==
    Running("AfterDOCTYPESystemKeyword") /\ Apply(handle_after_doctype_system_keyword_state(Self))

run_BeforeDOCTYPESystemIdentifier ==
    Running("BeforeDOCTYPESystemIdentifier") /\ Apply(handle_before_doctype_system_identifier_state(Self))

run_DOCTYPESystemIdentifierDoubleQuoted ==
    Running("DOCTYPESystemIdentifierDoubleQuoted") /\ Apply(handle_doctype_system_identifier_double_quoted_state(Self))

run_DOCTYPESystemIdentifierSingleQuoted ==
    Running("DOCTYPESystemIdentifierSingleQuoted") /\ Apply(handle_doctype_system_identifier_single_quoted_state(Self))

run_AfterDOCTYPESystemIdentifier ==
    Running("AfterDOCTYPESystemIdentifier") /\ Apply(handle_after_doctype_system_identifier_state(Self))

run_BogusDOCTYPE ==
    Running("BogusDOCTYPE") /\ Apply(handle_bogus_doctype_state(Self))

run_CharacterReference ==
    Running("CharacterReference") /\ Apply(handle_character_reference_state(Self))

run_return ==
    /\ pc = "run"
    /\ is_eof(input_stream)
    /\ Apply([Self EXCEPT !.pc = "returned"])

Next ==
    \/ run_Data
    \/ run_TagOpen
    \/ run_EndTagOpen
    \/ run_TagName
    \/ run_BeforeAttributeName
    \/ run_AttributeName
    \/ run_AfterAttributeName
    \/ run_BeforeAttributeValue
    \/ run_AttributeValueDoubleQuoted
    \/ run_AttributeValueSingleQuoted
    \/ run_AttributeValueUnquoted
    \/ run_AfterAttributeValueQuoted
    \/ run_SelfClosingStartTag
    \/ run_BogusComment
    \/ run_MarkupDeclarationOpen
    \/ run_CommentStart
    \/ run_CommentStartDash
    \/ run_Comment
    \/ run_CommentLessThanSign
    \/ run_CommentLessThanSignBang
    \/ run_CommentLessThanSignBangDash
    \/ run_CommentLessThanSignBangDashDash
    \/ run_CommentEndDash
    \/ run_CommentEnd
    \/ run_CommentEndBang
    \/ run_DOCTYPE
    \/ run_BeforeDOCTYPEName
    \/ run_DOCTYPEName
    \/ run_AfterDOCTYPEName
    \/ run_AfterDOCTYPEPublicKeyword
    \/ run_BeforeDOCTYPEPublicIdentifier
    \/ run_DOCTYPEPublicIdentifierDoubleQuoted
    \/ run_DOCTYPEPublicIdentifierSingleQuoted
    \/ run_AfterDOCTYPEPublicIdentifier
    \/ run_BetweenDOCTYPEPublicAndSystemIdentifiers
    \/ run_AfterDOCTYPESystemKeyword
    \/ run_BeforeDOCTYPESystemIdentifier
    \/ run_DOCTYPESystemIdentifierDoubleQuoted
    \/ run_DOCTYPESystemIdentifierSingleQuoted
    \/ run_AfterDOCTYPESystemIdentifier
    \/ run_BogusDOCTYPE
    \/ run_CharacterReference
    \/ run_return

Spec == Init /\ [][Next]_vars

FairSpec == Spec /\ WF_vars(Next)

(***************************************************************************)
(* The content models.  The tree constructor tells the tokenizer which     *)
(* entry state to adopt after certain start tags (set_content_model); the  *)
(* arms of the loop of Tokenizer::run for the states entered from there.   *)
(***************************************************************************)
set_content_model(s, mode) == set_state(s, mode)

(* The tokenizer for `input` after the start tag `tag` was emitted (or     *)
(* none, when tag is NoToken) and the content model `mode` was adopted.    *)
Tokenizer_in(mode, tag, input) ==
    set_content_model(
        IF tag = NoToken THEN Tokenizer_new(input)
        ELSE emit_token(Tokenizer_new(input), tag),
        mode)

MaxTokens == 12

run_RCDATA ==
    Running("RCDATA") /\ Apply(handle_rcdata_state(Self))

run_RAWTEXT ==
    Running("RAWTEXT") /\ Apply(handle_rawtext_state(Self))

run_ScriptData ==
    Running("ScriptData") /\ Apply(handle_script_data_state(Self))

run_PLAINTEXT ==
    Running("PLAINTEXT") /\ Apply(handle_plaintext_state(Self))

run_RCDATALessThanSign ==
    Running("RCDATALessThanSign") /\ Apply(handle_rcdata_less_than_sign_state(Self))

run_RCDATAEndTagOpen ==
    Running("RCDATAEndTagOpen") /\ Apply(handle_rcdata_end_tag_open_state(Self))

run_RCDATAEndTagName ==
    Running("RCDATAEndTagName") /\ Apply(handle_rcdata_end_tag_name_state(Self))

run_RAWTEXTLessThanSign ==
    Running("RAWTEXTLessThanSign") /\ Apply(handle_rawtext_less_than_sign_state(Self))

run_RAWTEXTEndTagOpen ==
    Running("RAWTEXTEndTagOpen") /\ Apply(handle_rawtext_end_tag_open_state(Self))

run_RAWTEXTEndTagName ==
    Running("RAWTEXTEndTagName") /\ Apply(handle_rawtext_end_tag_name_state(Self))

(* The `anything else` arm of this state leaves the state as it is and     *)
(* puts the byte back, so the arm runs again and again: the length of the   *)
(* token list is capped.                                                   *)
run_ScriptDataLessThanSign ==
    /\ Running("ScriptDataLessThanSign")
    /\ Len(tokens) < MaxTokens
    /\ Apply(handle_script_data_less_than_sign_state(Self))

run_ScriptDataEndTagOpen ==
    Running("ScriptDataEndTagOpen") /\ Apply(handle_script_data_end_tag_open_state(Self))

run_ScriptDataEndTagName ==
    Running("ScriptDataEndTagName") /\ Apply(handle_script_data_end_tag_name_state(Self))

run_ScriptDataEscapeStart ==
    Running("ScriptDataEscapeStart") /\ Apply(handle_script_data_escape_start_state(Self))

run_ScriptDataEscapeStartDash ==
    Running("ScriptDataEscapeStartDash") /\ Apply(handle_script_data_escape_start_dash_state(Self))

run_ScriptDataEscaped ==
    Running("ScriptDataEscaped") /\ Apply(handle_script_data_escaped_state(Self))

run_ScriptDataEscapedDash ==
    Running("ScriptDataEscapedDash") /\ Apply(handle_script_data_escaped_dash_state(Self))

run_ScriptDataEscapedDashDash ==
    Running("ScriptDataEscapedDashDash") /\ Apply(handle_script_data_escaped_dash_dash_state(Self))

run_ScriptDataEscapedLessThanSign ==
    Running("ScriptDataEscapedLessThanSign") /\ Apply(handle_script_data_escaped_less_than_sign_state(Self))

run_ScriptDataEscapedEndTagOpen ==
    Running("ScriptDataEscapedEndTagOpen") /\ Apply(handle_script_data_escaped_end_tag_open_state(Self))

run_ScriptDataEscapedEndTagName ==
    Running("ScriptDataEscapedEndTagName") /\ Apply(handle_script_data_escaped_end_tag_name_state(Self))

run_ScriptDataDoubleEscapeStart ==
    Running("ScriptDataDoubleEscapeStart") /\ Apply(handle_script_data_double_escape_start_state(Self))

run_ScriptDataDoubleEscaped ==
    Running("ScriptDataDoubleEscaped") /\ Apply(handle_script_data_double_escaped_state(Self))

run_ScriptDataDoubleEscapedDash ==
    Running("ScriptDataDoubleEscapedDash") /\ Apply(handle_script_data_double_escaped_dash_state(Self))

run_ScriptDataDoubleEscapedDashDash ==
    Running("ScriptDataDoubleEscapedDashDash") /\ Apply(handle_script_data_double_escaped_dash_dash_state(Self))

run_ScriptDataDoubleEscapedLessThanSign ==
    Running("ScriptDataDoubleEscapedLessThanSign") /\ Apply(handle_script_data_double_escaped_less_than_sign_state(Self))

run_ScriptDataDoubleEscapeEnd ==
    Running("ScriptDataDoubleEscapeEnd") /\ Apply(handle_script_data_double_escape_end_state(Self))

ContentNext ==
    \/ Next
    \/ run_RCDATA
    \/ run_RAWTEXT
    \/ run_ScriptData
    \/ run_PLAINTEXT
    \/ run_RCDATALessThanSign
    \/ run_RCDATAEndTagOpen
    \/ run_RCDATAEndTagName
    \/ run_RAWTEXTLessThanSign
    \/ run_RAWTEXTEndTagOpen
    \/ run_RAWTEXTEndTagName
    \/ run_ScriptDataLessThanSign
    \/ run_ScriptDataEndTagOpen
    \/ run_ScriptDataEndTagName
    \/ run_ScriptDataEscapeStart
    \/ run_ScriptDataEscapeStartDash
    \/ run_ScriptDataEscaped
    \/ run_ScriptDataEscapedDash
    \/ run_ScriptDataEscapedDashDash
    \/ run_ScriptDataEscapedLessThanSign
    \/ run_ScriptDataEscapedEndTagOpen
    \/ run_ScriptDataEscapedEndTagName
    \/ run_ScriptDataDoubleEscapeStart
    \/ run_ScriptDataDoubleEscaped
    \/ run_ScriptDataDoubleEscapedDash
    \/ run_ScriptDataDoubleEscapedDashDash
    \/ run_ScriptDataDoubleEscapedLessThanSign
    \/ run_ScriptDataDoubleEscapeEnd

(* Text of each content model: every byte string up to MaxLen over the     *)
(* bytes the text states tell apart.                                       *)
ContentAlphabet == {LT, SOLIDUS, BANG, DASH, GT, NUL, AMP, 97}
ContentTextInputs == Strs(ContentAlphabet, MaxLen)

(* An end tag inside the text: </ a name, the byte that ends the name and  *)
(* possibly a > after it; in ScriptData also behind <!--a, which is the    *)
(* escaped text.                                                           *)
EndTagNames == Strs({112, 80, 113}, MaxNameLen)
EndTagTerminators == {SPACE, SOLIDUS, GT, 49, DASH}
EndTagInputs ==
    {<<LT, SOLIDUS>> \o n \o <<c>> \o post :
        n \in EndTagNames, c \in EndTagTerminators, post \in {<<>>, <<GT>>}}
EscapedPrefix == <<LT, BANG, DASH, DASH, 97>>
LastStartTags ==
    {NoToken, StartTag(<<112>>, FALSE, <<>>), StartTag(<<112, 113>>, FALSE, <<>>)}

(* Script text <!--<W c and <!--<W c</W' c': W, W' are spellings of script *)
(* and near misses, c, c' the bytes that end the word; and <!--<script     *)
(* followed by a few bytes of double-escaped text.                         *)
ScriptWords ==
    {SCRIPT, <<83, 67, 82, 73, 80, 84>>, <<83, 99, 82, 105, 80, 116>>,
     <<115, 99, 114, 105, 112>>, SCRIPT \o <<115>>, <<120>>}
WordTerminators == {SPACE, LF, SOLIDUS, GT, 49}
ScriptOpenInputs ==
    {<<LT, BANG, DASH, DASH, LT>> \o w \o <<c>> : w \in ScriptWords, c \in WordTerminators}
ScriptInputs ==
    ScriptOpenInputs
    \cup {open \o <<LT, SOLIDUS>> \o w \o <<c>> :
            open \in ScriptOpenInputs, w \in ScriptWords \cup {<<>>},
            c \in WordTerminators}
    \cup {<<LT, BANG, DASH, DASH, LT>> \o SCRIPT \o <<SPACE>> \o t :
            t \in Strs({DASH, GT, LT, NUL, 97}, MaxLen)}

(* An attribute value with a `&` in it, unquoted and in either quotes.     *)
AmpValueInputs ==
    {<<LT, 120, SPACE, 97, EQ>> \o q \o <<49, AMP, 50>> \o q \o <<GT>> :
        q \in {<<>>, <<DQUOTE>>, <<SQUOTE>>}}

(* Text of the Data content model: enough of the inputs of Spec to take    *)
(* the run loop through every state reached from Data.                     *)
DataInputs ==
    Scenarios \cup DoctypeInputs
    \cup {<<LT, 120, SPACE, 97, EQ, SQUOTE, 50, SQUOTE, SPACE, 98, EQ, 49, GT>>,
          <<LT, BANG, DASH, DASH, DASH, GT, LT, QMARK, GT>>,
          <<LT, BANG, DASH, DASH, 97, DASH, DASH, BANG, GT, LT, SOLIDUS, GT>>}
    \cup AmpValueInputs

ContentModels == {"RCDATA", "RAWTEXT", "ScriptData", "PLAINTEXT"}
ContentStarts ==
    {[mode |-> "Data", tag |-> NoToken, input |-> i] : i \in DataInputs}
    \cup {[mode |-> m, tag |-> NoToken, input |-> i] :
            m \in ContentModels \cup {"Data"}, i \in ContentTextInputs}
    \cup {[mode |-> m, tag |-> t, input |-> i] :
            m \in ContentModels \ {"PLAINTEXT"}, t \in LastStartTags, i \in EndTagInputs}
    \cup {[mode |-> "ScriptData", tag |-> t, input |-> EscapedPrefix \o i] :
            t \in LastStartTags, i \in EndTagInputs}
    \cup {[mode |-> "ScriptData", tag |-> StartTag(SCRIPT, FALSE, <<>>), input |-> i] :
            i \in ScriptInputs}

ContentInit ==
    /\ \E c \in ContentStarts : Holds(Tokenizer_in(c.mode, c.tag, c.input))
    /\ TreeConstructor_new

ContentSpec == ContentInit /\ [][ContentNext]_vars



(***************************************************************************)
(* InsertionMode (insertion_mode.rs) and the DOM nodes on the stack of     *)
(* open elements.  A node is its element kind and its identity: the        *)
(* position on the stack, 0 for a context element, which is no node of the *)
(* stack.                                                                  *)
(***************************************************************************)
InsertionModes ==
    {"Initial", "BeforeHtml", "BeforeHead", "InHead", "InHeadNoscript", "AfterHead",
     "InBody", "Text", "InTable", "InTableText", "InCaption", "InColumnGroup",
     "InTableBody", "InRow", "InCell", "InSelect", "InSelectInTable", "InTemplate",
     "AfterBody", "InFrameset", "AfterFrameset", "AfterAfterBody",
     "AfterAfterFrameset"}

Node(k, i) == [kind |-> k, id |-> i]

is_select_element(n) == n.kind = "select"
is_td(n) == n.kind = "td"
is_th(n) == n.kind = "th"
is_tr(n) == n.kind = "tr"
is_table_section(n) == n.kind \in {"tbody", "thead", "tfoot"}
is_caption(n) == n.kind = "caption"
is_colgroup(n) == n.kind = "colgroup"
is_table(n) == n.kind = "table"
is_template(n) == n.kind = "template"
is_head(n) == n.kind = "head"
is_body(n) == n.kind = "body"
is_frameset(n) == n.kind = "frameset"
is_html(n) == n.kind = "html"
is_template_element(n) == is_template(n)
is_table_element(n) == is_table(n)
has_no_head(n) == ~head_element_created
get_previous_in_stack(n, stack) ==
    IF n.id \in 2..Len(stack) THEN Some(stack[n.id - 1]) ELSE None

stack_first(stack) == IF stack = <<>> THEN None ELSE Some(stack[1])
stack_last(stack) == IF stack = <<>> THEN None ELSE Some(stack[Len(stack)])

(***************************************************************************)
(* InsertionMode::reset_insertion_mode.  Frame is the call under way: its  *)
(* locals, its position and the mode it returns, which                     *)
(* TreeConstructor::reset_insertion_mode stores in insertion_mode.         *)
(***************************************************************************)
Frame ==
    [last |-> last, node |-> node, ancestor |-> ancestor, pc |-> sel_pc,
     result |-> insertion_mode]

return_mode(fr, mode) == [fr EXCEPT !.pc = "done", !.result = mode]

(* set_last leaving node as it is in the fragment case.                    *)
M_set_last(fr) ==
    IF fr.node = stack_first(stack_of_open_elements)
    THEN [fr EXCEPT !.last = TRUE]
    ELSE fr

(* Step 3: node is the first node of the stack.                            *)
set_last(fr) ==
    IF fr.node = stack_first(stack_of_open_elements)
    THEN [fr EXCEPT !.last = TRUE,
                    !.node = IF is_fragment_case THEN context_element ELSE @]
    ELSE fr

(* fall_through going on to the previous node also when last is true.     *)
M_fall_through(fr) ==
    [fr EXCEPT !.node = IF fr.node = None THEN None
                        ELSE get_previous_in_stack(fr.node[1], stack_of_open_elements)]

(* The arm the match falls to when no guard holds.                         *)
fall_through(fr) ==
    IF fr.last THEN return_mode(fr, "InBody")
    ELSE [fr EXCEPT !.node = IF fr.node = None THEN None
                             ELSE get_previous_in_stack(fr.node[1],
                                                        stack_of_open_elements)]

html_arm(fr) ==
    IF is_fragment_case /\ has_no_head(fr.node[1])
    THEN return_mode(fr, "BeforeHead")
    ELSE return_mode(fr, "AfterHead")

(* match_node with the arms of tr and of the table sections exchanged.    *)
M_match_node(fr) ==
    IF fr.node = None THEN fall_through(fr)
    ELSE LET n == fr.node[1]
         IN  IF is_select_element(n) THEN
                 IF fr.last THEN return_mode(fr, "InSelect")
                 ELSE [fr EXCEPT !.ancestor = Some(n), !.pc = "ancestor"]
             ELSE IF is_td(n) /\ is_th(n) /\ ~fr.last THEN return_mode(fr, "InCell")
             ELSE IF is_tr(n) THEN return_mode(fr, "InTableBody")
             ELSE IF is_table_section(n) THEN return_mode(fr, "InRow")
             ELSE IF is_caption(n) THEN return_mode(fr, "InCaption")
             ELSE IF is_colgroup(n) THEN return_mode(fr, "InColumnGroup")
             ELSE IF is_table(n) THEN return_mode(fr, "InTable")
             ELSE IF is_template(n) THEN return_mode(fr, "InTemplate")
             ELSE IF is_head(n) /\ ~fr.last THEN return_mode(fr, "InHead")
             ELSE IF is_body(n) THEN return_mode(fr, "InBody")
             ELSE IF is_frameset(n) THEN return_mode(fr, "InFrameset")
             ELSE IF is_html(n) THEN html_arm(fr)
             ELSE fall_through(fr)

match_node(fr) ==
    IF fr.node = None THEN fall_through(fr)
    ELSE LET n == fr.node[1]
         IN  IF is_select_element(n) THEN
                 IF fr.last THEN return_mode(fr, "InSelect")
                 ELSE [fr EXCEPT !.ancestor = Some(n), !.pc = "ancestor"]
             ELSE IF is_td(n) /\ is_th(n) /\ ~fr.last THEN return_mode(fr, "InCell")
             ELSE IF is_tr(n) THEN return_mode(fr, "InRow")
             ELSE IF is_table_section(n) THEN return_mode(fr, "InTableBody")
             ELSE IF is_caption(n) THEN return_mode(fr, "InCaption")
             ELSE IF is_colgroup(n) THEN return_mode(fr, "InColumnGroup")
             ELSE IF is_table(n) THEN return_mode(fr, "InTable")
             ELSE IF is_template(n) THEN return_mode(fr, "InTemplate")
             ELSE IF is_head(n) /\ ~fr.last THEN return_mode(fr, "InHead")
             ELSE IF is_body(n) THEN return_mode(fr, "InBody")
             ELSE IF is_frameset(n) THEN return_mode(fr, "InFrameset")
             ELSE IF is_html(n) THEN html_arm(fr)
             ELSE fall_through(fr)

(* ancestor_loop walking past a template.                                  *)
M_ancestor_loop(fr) ==
    IF fr.ancestor = stack_first(stack_of_open_elements)
    THEN return_mode(fr, "InSelect")
    ELSE LET prev == get_previous_in_stack(fr.ancestor[1], stack_of_open_elements)
         IN  IF prev = None THEN [fr EXCEPT !.ancestor = prev, !.pc = "panicked"]
             ELSE IF is_table_element(prev[1])
                  THEN return_mode([fr EXCEPT !.ancestor = prev], "InSelectInTable")
             ELSE [fr EXCEPT !.ancestor = prev]

(* One turn of the loop of the select arm.                                 *)
ancestor_loop(fr) ==
    IF fr.ancestor = stack_first(stack_of_open_elements)
    THEN return_mode(fr, "InSelect")
    ELSE LET prev == get_previous_in_stack(fr.ancestor[1], stack_of_open_elements)
         IN  IF prev = None THEN [fr EXCEPT !.ancestor = prev, !.pc = "panicked"]
             ELSE IF is_template_element(prev[1])
                  THEN return_mode([fr EXCEPT !.ancestor = prev], "InSelect")
             ELSE IF is_table_element(prev[1])
                  THEN return_mode([fr EXCEPT !.ancestor = prev], "InSelectInTable")
             ELSE [fr EXCEPT !.ancestor = prev]

ApplyFrame(fr) ==
    /\ last' = fr.last
    /\ node' = fr.node
    /\ ancestor' = fr.ancestor
    /\ sel_pc' = fr.pc
    /\ insertion_mode' = fr.result
    /\ UNCHANGED <<stack_of_open_elements, is_fragment_case, context_element,
                   head_element_created, current_template_insertion_mode>>
    /\ UNCHANGED tok_vars

(* reset_insertion_mode_call moving the context element out of the tree   *)
(* constructor (Option::take) where the code borrows it (as_ref).          *)
M_reset_insertion_mode_call ==
    /\ sel_pc \in {"idle", "done"}
    /\ last' = FALSE
    /\ node' = stack_last(stack_of_open_elements)
    /\ sel_pc' = "loop"
    /\ context_element' = None
    /\ UNCHANGED <<ancestor, insertion_mode, stack_of_open_elements, is_fragment_case,
                   head_element_created, current_template_insertion_mode>>
    /\ UNCHANGED tok_vars

(* TreeConstructor::reset_insertion_mode calls the selector, on a tree     *)
(* constructor with no call under way: a new one or one whose last call    *)
(* has returned.                                                           *)
reset_insertion_mode_call ==
    /\ sel_pc \in {"idle", "done"}
    /\ ApplyFrame([Frame EXCEPT !.last = FALSE,
                                !.node = stack_last(stack_of_open_elements),
                                !.pc = "loop"])

(* One turn of the selector's loop: step 3 and the match on node.          *)
reset_insertion_mode_loop ==
    /\ sel_pc = "loop"
    /\ ApplyFrame(match_node(set_last(Frame)))

reset_insertion_mode_ancestor_loop ==
    /\ sel_pc = "ancestor"
    /\ ApplyFrame(ancestor_loop(Frame))

(***************************************************************************)
(* The arguments of the selector: stacks of open elements, the fragment    *)
(* case with its context element, whether the head element exists, and    *)
(* the current template insertion mode.                                    *)
(***************************************************************************)
MaxStack == 2
MaxBelowSelect == 2

ElementKinds ==
    {"select", "td", "th", "tr", "tbody", "thead", "tfoot", "caption", "colgroup",
     "table", "template", "head", "body", "frameset", "html", "div"}

GeneralStacks == Strs({"td", "head", "html", "template", "select", "div"}, MaxStack)
TopStacks ==
    {<<k>> : k \in ElementKinds}
        \cup {<<b, k>> : b \in {"html", "div"}, k \in ElementKinds}
        \cup {<<k, "div">> : k \in ElementKinds}
SelectStacks ==
    {below \o <<"select">> \o above :
        below \in Strs({"table", "template", "div"}, MaxBelowSelect),
        above \in {<<>>, <<"div">>}}
TableCellSelectStack == <<"html", "body", "table", "tbody", "tr", "td", "select">>
SelectorStacks ==
    GeneralStacks \cup TopStacks \cup SelectStacks \cup {TableCellSelectStack}

MkStack(ks) == [i \in 1..Len(ks) |-> Node(ks[i], i)]

FragmentCases ==
    {[fragment |-> FALSE, context |-> None],
     [fragment |-> FALSE, context |-> Some(Node("tr", 0))],
     [fragment |-> TRUE, context |-> None]}
        \cup {[fragment |-> TRUE, context |-> Some(Node(k, 0))] : k \in ElementKinds}

TemplateModes == {"InTemplate", "InRow"}

SelInit ==
    /\ Holds(Tokenizer_new(<<>>))
    /\ \E ks \in SelectorStacks : stack_of_open_elements = MkStack(ks)
    /\ \E fc \in FragmentCases :
        /\ is_fragment_case = fc.fragment
        /\ context_element = fc.context
    /\ head_element_created \in BOOLEAN
    /\ current_template_insertion_mode \in TemplateModes
    /\ insertion_mode = "Initial"
    /\ last = FALSE
    /\ node = None
    /\ ancestor = None
    /\ sel_pc = "idle"

SelNext ==
    \/ reset_insertion_mode_call
    \/ reset_insertion_mode_loop
    \/ reset_insertion_mode_ancestor_loop

SelSpec == SelInit /\ [][SelNext]_vars

FairSelSpec == SelSpec /\ WF_vars(SelNext)

(***************************************************************************)
(* Helpers of the properties.                                              *)
(***************************************************************************)
Range(q) == {q[i] : i \in 1..Len(q)}
Input == input_stream.data
Returned == pc = "returned"
TagTokens ==
    {t \in Range(tokens) \cup {current_tag_token, last_start_tag_token} : IsTag(t)}
EmittedTags == {t \in Range(tokens) : IsTag(t)}
AttrNamesOf(t) == [i \in 1..Len(t.attributes) |-> t.attributes[i][1]]
StartsWith(q, p) == Len(q) >= Len(p) /\ SubSeq(q, 1, Len(p)) = p
EndsWith(q, p) == Len(q) >= Len(p) /\ SubSeq(q, Len(q) - Len(p) + 1, Len(q)) = p
Contains(q, p) ==
    \E i \in 1..(Len(q) - Len(p) + 1) : SubSeq(q, i, i + Len(p) - 1) = p

TypeOK ==
    /\ pc \in {"run", "returned", "panicked"}
    /\ input_stream.idx \in 0..Len(Input)
    /\ state \in {"Data", "TagOpen", "EndTagOpen", "TagName", "BeforeAttributeName",
                  "AttributeName", "AfterAttributeName", "BeforeAttributeValue",
                  "AttributeValueDoubleQuoted", "AttributeValueSingleQuoted",
                  "AttributeValueUnquoted", "AfterAttributeValueQuoted",
                  "SelfClosingStartTag", "BogusComment", "MarkupDeclarationOpen",
                  "CommentStart", "CommentStartDash", "Comment", "CommentLessThanSign",
                  "CommentLessThanSignBang", "CommentLessThanSignBangDash",
                  "CommentLessThanSignBangDashDash", "CommentEndDash", "CommentEnd",
                  "CommentEndBang", "DOCTYPE", "BeforeDOCTYPEName", "DOCTYPEName",
                  "AfterDOCTYPEName", "AfterDOCTYPEPublicKeyword",
                  "BeforeDOCTYPEPublicIdentifier", "DOCTYPEPublicIdentifierDoubleQuoted",
                  "DOCTYPEPublicIdentifierSingleQuoted", "AfterDOCTYPEPublicIdentifier",
                  "BetweenDOCTYPEPublicAndSystemIdentifiers", "AfterDOCTYPESystemKeyword",
                  "BeforeDOCTYPESystemIdentifier", "DOCTYPESystemIdentifierDoubleQuoted",
                  "DOCTYPESystemIdentifierSingleQuoted", "AfterDOCTYPESystemIdentifier",
                  "BogusDOCTYPE", "CharacterReference"}

(***************************************************************************)
(* C1: after Tokenizer::run returns, the token list holds exactly one EOF  *)
(* token and it is the last element.                                       *)
(***************************************************************************)
C1_EndsWithOneEOF ==
    Returned =>
        /\ Len(tokens) >= 1
        /\ tokens[Len(tokens)] = EOF
        /\ Cardinality({i \in 1..Len(tokens) : tokens[i] = EOF}) = 1

(***************************************************************************)
(* C2: Tokenizer::run terminates on every input: the loop eventually       *)
(* leaves, whatever parse errors the input triggers.                       *)
(***************************************************************************)
C2_RunTerminates == <>(pc # "run")

(***************************************************************************)
(* C3: in every reachable state the attribute names of the tag being built *)
(* and of every emitted StartTag/EndTag are pairwise distinct.             *)
(***************************************************************************)
C3_AttributeNamesDistinct ==
    \A t \in TagTokens :
        \A i, j \in 1..Len(t.attributes) :
            i # j => t.attributes[i][1] # t.attributes[j][1]

C3_Witness ==
    /\ \E i \in 1..Len(parse_errors) : parse_errors[i] = "attribute-name-existed"
    /\ \E t \in EmittedTags : Len(t.attributes) >= 1

(***************************************************************************)
(* C4: no attribute name of an emitted StartTag/EndTag, of the tag being   *)
(* built or of the scratch name holds an uppercase ASCII letter: the       *)
(* attribute-name state stores every uppercase byte lowercased.            *)
(***************************************************************************)
C4_AttributeNamesLowercase ==
    /\ \A c \in Range(current_tag_name) : ~is_ascii_uppercase(c)
    /\ \A t \in TagTokens :
        \A i \in 1..Len(t.attributes) :
            \A c \in Range(t.attributes[i][1]) : ~is_ascii_uppercase(c)

C4_Witness ==
    /\ 65 \in Range(Input)
    /\ 97 \notin Range(Input)
    /\ \E t \in EmittedTags :
        \E i \in 1..Len(t.attributes) : t.attributes[i][1] = <<97>>

(***************************************************************************)
(* C5: when an attribute is completed whose name already exists on the tag *)
(* being built, the parse error duplicate-attribute is reported and the    *)
(* tag's attribute list is left as it was.                                 *)
(***************************************************************************)
DuplicateCompleted ==
    /\ Running("AfterAttributeName")
    /\ ~IsWS(current_cpy(input_stream))
    /\ current_cpy(input_stream) # Some(EQ)
    /\ current_tag_attr_name_exist(Self)

C5_DuplicateAttributeError ==
    [][DuplicateCompleted =>
        /\ parse_errors' = Append(parse_errors, "duplicate-attribute")
        /\ LET after == IF current_tag_token' # NoToken
                        THEN current_tag_token'
                        ELSE tokens'[Len(tokens')]
           IN  after.attributes = current_tag_token.attributes]_vars

(***************************************************************************)
(* Attributes written name=value: the name, the characters of the value   *)
(* and the text of the writing (unquoted, double-quoted, single-quoted).   *)
(***************************************************************************)
ValuedWritings ==
    {[name |-> n, value |-> <<49>>, text |-> <<SPACE>> \o n \o <<EQ, 49>>] :
        n \in AttrNames}
    \cup {[name |-> n, value |-> <<49>>,
           text |-> <<SPACE>> \o n \o <<EQ, DQUOTE, 49, DQUOTE>>] : n \in AttrNames}
    \cup {[name |-> n, value |-> <<50>>,
           text |-> <<SPACE>> \o n \o <<EQ, SQUOTE, 50, SQUOTE>>] : n \in AttrNames}

RECURSIVE WritingsText(_)
WritingsText(ws) == IF ws = <<>> THEN <<>> ELSE Head(ws).text \o WritingsText(Tail(ws))

RECURSIVE FirstOccurrences(_, _)
FirstOccurrences(ws, seen) ==
    IF ws = <<>> THEN <<>>
    ELSE LET n == LowerSeq(Head(ws).name)
         IN  IF n \in seen
             THEN FirstOccurrences(Tail(ws), seen)
             ELSE <<<<n, Head(ws).value>>>> \o FirstOccurrences(Tail(ws), seen \cup {n})

(***************************************************************************)
(* C6: a tag whose attributes are each written name=value is emitted with  *)
(* one (name, value) pair per name, in source order, for the first         *)
(* occurrence of the name, the value being the characters written for it.  *)
(***************************************************************************)
C6_FirstOccurrencePairs ==
    Returned =>
        \A ws \in Strs(ValuedWritings, MaxAttrs) \ {<<>>} :
            \A close \in {<<GT>>, <<SPACE, GT>>} :
                Input = <<LT, 120>> \o WritingsText(ws) \o close =>
                    /\ EmittedTags # {}
                    /\ \A t \in EmittedTags :
                        t.attributes = FirstOccurrences(ws, {})

(***************************************************************************)
(* C7: a tag written with no attribute name, < name then > or /> with or   *)
(* without whitespace before it, is emitted with an empty attribute list.  *)
(***************************************************************************)
C7_NoAttributeWritten ==
    Returned =>
        \A open \in {<<LT, 120>>, <<LT, 98, 114>>} :
            \A close \in TagClosers :
                Input = open \o close =>
                    /\ EmittedTags # {}
                    /\ \A t \in EmittedTags : t.attributes = <<>>

(***************************************************************************)
(* NAME of <NAME> or </NAME>: begins with an ASCII letter and holds no     *)
(* whitespace, /, > or U+0000.                                             *)
(***************************************************************************)
IsTagNameText(n) ==
    /\ Len(n) >= 1
    /\ is_ascii_alphabetic(n[1])
    /\ \A c \in Range(n) : c \notin WS \cup {SOLIDUS, GT, NUL}

TokensOfType(ty) == {i \in 1..Len(tokens) : tokens[i].type = ty}

(***************************************************************************)
(* C8: for an input <NAME>, exactly one StartTag is emitted and its        *)
(* tag_name is NAME with its uppercase ASCII letters lowercased.           *)
(***************************************************************************)
C8_StartTagNameLowercased ==
    (Returned /\ Len(Input) >= 3 /\ Input[1] = LT /\ Input[Len(Input)] = GT
        /\ IsTagNameText(SubSeq(Input, 2, Len(Input) - 1)))
    => /\ Cardinality(TokensOfType("StartTag")) = 1
       /\ \A i \in TokensOfType("StartTag") :
            tokens[i].tag_name = LowerSeq(SubSeq(Input, 2, Len(Input) - 1))

C8_Witness ==
    /\ Returned
    /\ Input = <<LT, 80, 112, GT>>
    /\ tokens = <<StartTag(<<112, 112>>, FALSE, <<>>)>>

(***************************************************************************)
(* C9: for an input </NAME>, exactly one EndTag is emitted and its         *)
(* tag_name is NAME with its uppercase ASCII letters lowercased.           *)
(***************************************************************************)
C9_EndTagNameLowercased ==
    (Returned /\ Len(Input) >= 4 /\ SubSeq(Input, 1, 2) = <<LT, SOLIDUS>>
        /\ Input[Len(Input)] = GT
        /\ IsTagNameText(SubSeq(Input, 3, Len(Input) - 1)))
    => /\ Cardinality(TokensOfType("EndTag")) = 1
       /\ \A i \in TokensOfType("EndTag") :
            tokens[i].tag_name = LowerSeq(SubSeq(Input, 3, Len(Input) - 1))

(***************************************************************************)
(* The input is pre <!--D--> post; CommentData(pre, post) is D.            *)
(***************************************************************************)
IsCommentInput(pre, post) ==
    /\ Len(Input) >= Len(pre) + Len(post) + 7
    /\ StartsWith(Input, pre \o <<LT, BANG, DASH, DASH>>)
    /\ EndsWith(Input, <<DASH, DASH, GT>> \o post)

CommentData(pre, post) == SubSeq(Input, Len(pre) + 5, Len(Input) - Len(post) - 3)

WellFormedCommentData(d) ==
    /\ ~Contains(d, <<DASH, DASH, GT>>)
    /\ ~StartsWith(d, <<GT>>)
    /\ ~StartsWith(d, <<DASH, GT>>)

OneCommentWithData(d) ==
    /\ Cardinality(TokensOfType("Comment")) = 1
    /\ \A i \in TokensOfType("Comment") : tokens[i].data = d

NestedCommentInput ==
    <<LT, BANG, DASH, DASH, 97, LT, BANG, DASH, DASH, 98, DASH, DASH, GT>>

(***************************************************************************)
(* C10 as stated: for every comment <!--D-->, D not containing --> and not *)
(* starting with > or ->, exactly one Comment token is emitted and its     *)
(* data is D; <!--a<!--b--> also reports nested-comment.                   *)
(***************************************************************************)
C10_CommentData_Original ==
    Returned =>
        \A pre \in TextBefore, post \in TextAfter :
            (IsCommentInput(pre, post) /\ WellFormedCommentData(CommentData(pre, post)))
            => /\ OneCommentWithData(CommentData(pre, post))
               /\ Input = NestedCommentInput => "nested-comment" \in Range(parse_errors)

(***************************************************************************)
(* C10: for every comment <!--D--> read from the Data state, D not         *)
(* containing -->, --!> or U+0000 and not starting with > or ->, exactly   *)
(* one Comment token is emitted and its data is D, byte for byte, also     *)
(* when D holds <, <!, <!--, - or --; <!--a<!--b--> yields Comment{a<!--b} *)
(* and reports nested-comment.                                             *)
(***************************************************************************)
C10_CommentData ==
    Returned =>
        \A pre \in TextBefore, post \in TextAfter :
            (/\ IsCommentInput(pre, post)
             /\ WellFormedCommentData(CommentData(pre, post))
             /\ ~Contains(CommentData(pre, post), <<DASH, DASH, BANG, GT>>)
             /\ NUL \notin Range(CommentData(pre, post)))
            => /\ OneCommentWithData(CommentData(pre, post))
               /\ Input = NestedCommentInput => "nested-comment" \in Range(parse_errors)

C10_Witness ==
    /\ Returned
    /\ Input = NestedCommentInput
    /\ tokens = <<Comment(<<97, LT, BANG, DASH, DASH, 98>>)>>
    /\ "nested-comment" \in Range(parse_errors)

(***************************************************************************)
(* The data of the Character tokens emitted so far, in order.              *)
(***************************************************************************)
IsCharacterToken(tk) == tk.type = "Character"
CharacterData ==
    LET cs == SelectSeq(tokens, IsCharacterToken)
    IN  [i \in 1..Len(cs) |-> cs[i].data]

IsPlainText(q) == \A c \in Range(q) : c < 128 /\ c \notin {LT, AMP, NUL}

(***************************************************************************)
(* C11: round trip.  For an input of ASCII bytes other than <, & and       *)
(* U+0000 the Character tokens are one per input byte, in input order, and *)
(* their data concatenated is the input.                                   *)
(***************************************************************************)
C11_TextRoundTrip ==
    (Returned /\ IsPlainText(Input)) => CharacterData = Input

C11_Witness ==
    /\ Returned
    /\ Input = <<97, SPACE, GT>>
    /\ tokens = <<Character(97), Character(SPACE), Character(GT)>>

(***************************************************************************)
(* C12: <!DOCTYPE in any letter case, whitespace, a name N and > emit      *)
(* exactly one DOCTYPE token, its name N lowercased, without public and    *)
(* system identifier and with force_quirks false.                          *)
(***************************************************************************)
C12_DoctypeName ==
    Returned =>
        \A kw \in DoctypeKeywords, ws \in DoctypeSpaces, n \in DoctypeNames :
            Input = <<LT, BANG>> \o kw \o ws \o n \o <<GT>> =>
                /\ Cardinality(TokensOfType("DOCTYPE")) = 1
                /\ \A i \in TokensOfType("DOCTYPE") :
                    tokens[i] = DOCTYPE(Some(LowerSeq(n)), None, None, FALSE)

C12_Witness ==
    /\ Returned
    /\ Input = <<LT, BANG, 100, 111, 99, 116, 121, 112, 101, SPACE, 104, 72, GT>>
    /\ tokens = <<DOCTYPE(Some(<<104, 104>>), None, None, FALSE)>>

(***************************************************************************)
(* C13: a named character reference is resolved.  a&amp;b in Data yields   *)
(* the Character tokens a, &, b, and <a href="x&amp;y"> yields a StartTag  *)
(* a whose attributes are [(href, x&y)].                                   *)
(***************************************************************************)
AmpInData == <<97, AMP, 97, 109, 112, 59, 98>>
AmpInAttributeValue ==
    <<LT, 97, SPACE, 104, 114, 101, 102, EQ, DQUOTE, 120, AMP, 97, 109, 112, 59, 121,
      DQUOTE, GT>>

C13_CharacterReferenceResolved ==
    /\ Input = AmpInData => <>(Returned /\ CharacterData = <<97, AMP, 98>>)
    /\ Input = AmpInAttributeValue =>
        <>(/\ Returned
           /\ \E i \in TokensOfType("StartTag") :
                /\ tokens[i].tag_name = <<97>>
                /\ tokens[i].attributes = <<<<<<104, 114, 101, 102>>, <<120, AMP, 121>>>>>>)

(***************************************************************************)
(* The selector's walk as the specification describes it.  DispatchKind(i) *)
(* is the kind of the node dispatched at position i of the stack: the node *)
(* itself, or at the bottom in the fragment case the context element.      *)
(* RuleMatches(i) holds when a dispatch rule applies there (td, th and     *)
(* head have none at the bottom); FirstMatch is the topmost such position, *)
(* 0 when there is none.                                                   *)
(***************************************************************************)
Done == sel_pc = "done"
StackKinds == [i \in 1..Len(stack_of_open_elements) |-> stack_of_open_elements[i].kind]
Positions == 1..Max(Len(stack_of_open_elements), 1)
DispatchNode(i) ==
    IF i = 1
    THEN IF is_fragment_case THEN context_element
         ELSE stack_first(stack_of_open_elements)
    ELSE Some(stack_of_open_elements[i])
DispatchKind(i) == IF DispatchNode(i) = None THEN "none" ELSE DispatchNode(i)[1].kind
RuleMatches(i) ==
    /\ DispatchKind(i) \in ElementKinds \ {"div"}
    /\ i = 1 => DispatchKind(i) \notin {"td", "th", "head"}
FirstMatch ==
    IF \E i \in Positions : RuleMatches(i)
    THEN CHOOSE i \in Positions :
            RuleMatches(i) /\ \A j \in Positions : j > i => ~RuleMatches(j)
    ELSE 0
FirstMatchKind == IF FirstMatch = 0 THEN "none" ELSE DispatchKind(FirstMatch)

TableBeforeTemplate(i) ==
    \E j \in 1..(i - 1) :
        /\ stack_of_open_elements[j].kind = "table"
        /\ \A m \in (j + 1)..(i - 1) : stack_of_open_elements[m].kind # "template"

C16_CellArm ==
    (Done /\ FirstMatch > 1 /\ FirstMatchKind \in {"td", "th"}) =>
        insertion_mode = "InCell"

(***************************************************************************)
(* C17: when the first node matched is an html, the result is BeforeHead   *)
(* if the head element has not been created and AfterHead otherwise, in    *)
(* the fragment case or not.                                               *)
(***************************************************************************)
C17_HtmlArm ==
    (Done /\ FirstMatchKind = "html") =>
        insertion_mode = IF head_element_created THEN "AfterHead" ELSE "BeforeHead"

(***************************************************************************)
(* C18: when the first node matched is a template, the result is the       *)
(* current template insertion mode, whatever that mode is.                 *)
(***************************************************************************)
C18_TemplateArm ==
    (Done /\ FirstMatchKind = "template") =>
        insertion_mode = current_template_insertion_mode

(***************************************************************************)
(* C19: first match wins.  When the first node matched is a tr, a table    *)
(* section, a caption, a colgroup, a table, a head above the bottom, a     *)
(* body or a frameset, the result is InRow, InTableBody, InCaption,        *)
(* InColumnGroup, InTable, InHead, InBody, InFrameset, whatever the nodes  *)
(* below it.                                                               *)
(***************************************************************************)
ModeOfKind(k) ==
    CASE k = "tr" -> "InRow"
      [] k \in {"tbody", "thead", "tfoot"} -> "InTableBody"
      [] k = "caption" -> "InCaption"
      [] k = "colgroup" -> "InColumnGroup"
      [] k = "table" -> "InTable"
      [] k = "head" -> "InHead"
      [] k = "body" -> "InBody"
      [] k = "frameset" -> "InFrameset"

FirstMatchKinds ==
    {"tr", "tbody", "thead", "tfoot", "caption", "colgroup", "table", "head", "body",
     "frameset"}

ContextModes(k) ==
    CASE k = "select" -> {"InSelect"}
      [] k \in {"td", "th", "head", "div", "none"} -> {"InBody"}
      [] k = "html" -> {IF head_element_created THEN "AfterHead" ELSE "BeforeHead"}
      [] k = "template" -> {"InTemplate", current_template_insertion_mode}
      [] OTHER -> {ModeOfKind(k)}

StartTagPositions == {i \in 1..Len(tokens) : tokens[i].type = "StartTag"}
LastEmittedStartTag ==
    IF StartTagPositions = {} THEN NoToken
    ELSE tokens[CHOOSE i \in StartTagPositions : \A j \in StartTagPositions : j <= i]
C21_LastStartTag ==
    /\ [](last_start_tag_token = LastEmittedStartTag)
    /\ [][StartsWith(tokens', tokens)]_vars

(* A StartTag was emitted and a token of another kind after it.            *)
C21_Witness ==
    /\ StartTagPositions # {}
    /\ tokens[Len(tokens)].type # "StartTag"
    /\ last_start_tag_token = LastEmittedStartTag
    /\ last_start_tag_token # NoToken

(***************************************************************************)
(* C22: immediately after a step that emits a StartTag or EndTag token,    *)
(* from whichever state, current_tag_token is absent and the scratch       *)
(* attribute name and value are both empty.                                *)
(***************************************************************************)
EmitsTag ==
    /\ Len(tokens') = Len(tokens) + 1
    /\ IsTag(tokens'[Len(tokens')])
ScratchReset ==
    /\ current_tag_token = NoToken
    /\ current_tag_name = <<>>
    /\ current_tag_value = <<>>
C22_TagEmissionResetsScratch == [][EmitsTag => ScratchReset']_vars

(***************************************************************************)
(* C23: when the input ends while the tokenizer is in a comment state      *)
(* (CommentStart .. CommentEndBang, or BogusComment), the run ends with    *)
(* the Comment token in progress emitted, `eof-in-comment` reported, and   *)
(* the EOF token following it as the last token.                           *)
(***************************************************************************)
CommentStates ==
    {"CommentStart", "CommentStartDash", "Comment", "CommentLessThanSign",
     "CommentLessThanSignBang", "CommentLessThanSignBangDash",
     "CommentLessThanSignBangDashDash", "CommentEndDash", "CommentEnd",
     "CommentEndBang", "BogusComment"}
C23_EofInComment ==
    (Returned /\ state \in CommentStates) =>
        /\ Len(tokens) >= 2
        /\ tokens[Len(tokens)] = EOF
        /\ tokens[Len(tokens) - 1].type = "Comment"
        /\ "eof-in-comment" \in Range(parse_errors)
        /\ current_comment_token = NoToken

(***************************************************************************)
(* C28: in BeforeAttributeName a `=` is reported as                        *)
(* `unexpected-equals-sign-before-attribute-name` and starts a new         *)
(* attribute whose name begins with that `=`: the step enters              *)
(* AttributeName with the scratch name exactly "=" and an empty value.     *)
(***************************************************************************)
AtByte(st, b) ==
    /\ Running(st)
    /\ next_input_char(Self) = Some(b)
C28_EqualsStartsAttributeName ==
    [][AtByte("BeforeAttributeName", EQ) =>
          /\ parse_errors' =
                Append(parse_errors, "unexpected-equals-sign-before-attribute-name")
          /\ state' = "AttributeName"
          /\ current_tag_name' = <<EQ>>
          /\ current_tag_value' = <<>>]_vars

(***************************************************************************)
(* C29: each attribute added to a tag is named exactly by the (lowercased) *)
(* characters written for that attribute, with nothing carried over from   *)
(* an earlier attribute, a discarded duplicate or a previous tag: a tag    *)
(* written with bare names n1 n2 .. has the first occurrences of the       *)
(* lowercased names as its attribute names, in order (`<x a a b>` has the  *)
(* attributes a and b).                                                    *)
(***************************************************************************)
BareWritings(ns) == [i \in 1..Len(ns) |-> [name |-> ns[i], value |-> <<>>]]
C29_AttributeNamedByOwnCharacters ==
    Returned =>
        \A ns \in Strs(AttrNames, MaxBareAttrs) :
            Input = <<LT, 120>> \o Flatten([i \in 1..Len(ns) |-> <<SPACE>> \o ns[i]])
                        \o <<GT>> =>
                /\ EmittedTags # {}
                /\ \A t \in EmittedTags :
                    t.attributes = FirstOccurrences(BareWritings(ns), {})

(***************************************************************************)
(* C30: a tag token is emitted with self_closing = true exactly when the   *)
(* `>` that closes it is consumed in SelfClosingStartTag; there, any other *)
(* character is reported as `unexpected-solidus-in-tag` and the tokenizer  *)
(* goes back to BeforeAttributeName reconsuming it, the flag of the tag    *)
(* in progress staying false and nothing being emitted.                    *)
(***************************************************************************)
C30_SelfClosingFlag ==
    [][/\ EmitsTag =>
            (tokens'[Len(tokens')].self_closing <=> state = "SelfClosingStartTag")
       /\ (Running("SelfClosingStartTag") /\ next_input_char(Self) # Some(GT)) =>
            /\ parse_errors' = Append(parse_errors, "unexpected-solidus-in-tag")
            /\ state' = "BeforeAttributeName"
            /\ input_stream' = input_stream
            /\ tokens' = tokens
            /\ IsTag(current_tag_token') => ~current_tag_token'.self_closing]_vars

(* A `/` followed by another character was reported, and a later `/>`      *)
(* closed the tag, emitted with the flag set.                              *)
C30_Witness ==
    /\ Returned
    /\ "unexpected-solidus-in-tag" \in Range(parse_errors)
    /\ \E t \in EmittedTags : t.self_closing
    /\ \E i \in 1..Len(Input) : Input[i] = SOLIDUS

(***************************************************************************)
(* C24: from the end-tag-name states of RCDATA, RAWTEXT, ScriptData and    *)
(* ScriptDataEscaped the tokenizer goes to BeforeAttributeName,            *)
(* SelfClosingStartTag or Data (emitting the EndTag) only when the name    *)
(* accumulated so far, lowercased, equals the name of the last emitted     *)
(* StartTag; never when no StartTag was emitted.                           *)
(***************************************************************************)
EndTagNameStates ==
    {"RCDATAEndTagName", "RAWTEXTEndTagName", "ScriptDataEndTagName",
     "ScriptDataEscapedEndTagName"}
LeavesEndTagName ==
    /\ pc = "run"
    /\ state \in EndTagNameStates
    /\ state' \in {"BeforeAttributeName", "SelfClosingStartTag", "Data"}
C24_OnlyAppropriateEndTag ==
    [][LeavesEndTagName =>
          /\ LastEmittedStartTag # NoToken
          /\ LowerSeq(temporary_buffer) = LastEmittedStartTag.tag_name
          /\ state' = "Data" =>
                tokens' = Append(tokens, EndTag(LastEmittedStartTag.tag_name, FALSE, <<>>))
          /\ state' # "Data" => tokens' = tokens]_vars

(* An end tag written with an uppercase letter closed the text of the last *)
(* start tag and was emitted under its name.                               *)
C24_Witness ==
    /\ Returned
    /\ LastEmittedStartTag # NoToken
    /\ \E i \in 1..Len(tokens) :
        /\ tokens[i].type = "EndTag"
        /\ tokens[i].tag_name = LastEmittedStartTag.tag_name
        /\ tokens[i].tag_name # <<>>
    /\ \E i \in 1..Len(Input) : Input[i] = 80

(***************************************************************************)
(* C25: in the end-tag-name states of RCDATA, RAWTEXT and ScriptData, when *)
(* the name is ended by whitespace, `/` or `>` and the end tag is not      *)
(* appropriate, or by any other non-letter, the step emits Character `<`,  *)
(* Character `/` and one Character per character of the temporary buffer,  *)
(* in order and in the case written, clears the buffer, returns to the     *)
(* enclosing content-model state and leaves the ending character to be     *)
(* consumed again.                                                         *)
(***************************************************************************)
Enclosing(st) ==
    CASE st = "RCDATAEndTagName" -> "RCDATA"
      [] st = "RAWTEXTEndTagName" -> "RAWTEXT"
      [] st = "ScriptDataEndTagName" -> "ScriptData"
NameIsAppropriate ==
    /\ LastEmittedStartTag # NoToken
    /\ LowerSeq(temporary_buffer) = LastEmittedStartTag.tag_name
NameRejected ==
    /\ pc = "run"
    /\ state \in {"RCDATAEndTagName", "RAWTEXTEndTagName", "ScriptDataEndTagName"}
    /\ next_input_char(Self) # None
    /\ ~is_ascii_alphabetic(next_input_char(Self)[1])
    /\ next_input_char(Self)[1] \in WS \cup {SOLIDUS, GT} => ~NameIsAppropriate
C25_RejectedEndTagReemitted ==
    [][NameRejected =>
          /\ tokens' = tokens \o <<Character(LT), Character(SOLIDUS)>>
                          \o [i \in 1..Len(temporary_buffer) |->
                                 Character(temporary_buffer[i])]
          /\ temporary_buffer' = <<>>
          /\ state' = Enclosing(state)
          /\ input_stream' = input_stream]_vars

(* A rejected end tag written with an uppercase letter came out as the     *)
(* characters <, / and the letter as written.                              *)
C25_Witness ==
    /\ Returned
    /\ state \in {"RCDATA", "RAWTEXT", "ScriptData"}
    /\ Contains(tokens, <<Character(LT), Character(SOLIDUS), Character(80)>>)
    /\ temporary_buffer = <<>>

(***************************************************************************)
(* C26: in ScriptDataDoubleEscapeStart, on whitespace, `/` or `>`, the     *)
(* tokenizer goes to ScriptDataDoubleEscaped if and only if the word read  *)
(* since the `<`, lowercased, is exactly `script`, and to                  *)
(* ScriptDataEscaped otherwise; in ScriptDataDoubleEscapeEnd the same test *)
(* decides the other way round.  The ending character is emitted.          *)
(***************************************************************************)
WordStart ==
    CHOOSE j \in 0..input_stream.idx :
        /\ \A i \in (j + 1)..input_stream.idx : is_ascii_alphabetic(Input[i])
        /\ j = 0 \/ ~is_ascii_alphabetic(Input[j])
WordRead == LowerSeq(SubSeq(Input, WordStart + 1, input_stream.idx))
WordEnds(st) ==
    /\ Running(st)
    /\ next_input_char(Self)[1] \in WS \cup {SOLIDUS, GT}
C26_ScriptWordToggles ==
    [][/\ WordEnds("ScriptDataDoubleEscapeStart") =>
            /\ state' = "ScriptDataDoubleEscaped" <=> WordRead = SCRIPT
            /\ state' = "ScriptDataEscaped" <=> WordRead # SCRIPT
            /\ temporary_buffer = WordRead
            /\ tokens' = Append(tokens, Character(next_input_char(Self)[1]))
       /\ WordEnds("ScriptDataDoubleEscapeEnd") =>
            /\ state' = "ScriptDataEscaped" <=> WordRead = SCRIPT
            /\ state' = "ScriptDataDoubleEscaped" <=> WordRead # SCRIPT
            /\ temporary_buffer = WordRead
            /\ tokens' = Append(tokens, Character(next_input_char(Self)[1]))]_vars

(* <ScRiPt opened the double-escaped text and </script closed it: every    *)
(* byte came out as a character and the text is escaped again.             *)
C26_Witness ==
    /\ Returned
    /\ state = "ScriptDataEscaped"
    /\ Contains(Input, <<LT, 83, 99, 82, 105, 80, 116>>)
    /\ Contains(Input, <<LT, SOLIDUS>> \o SCRIPT)
    /\ Len(tokens) = Len(Input) + 1

(***************************************************************************)
(* C27: in ScriptDataLessThanSign a character other than `/` or `!` makes  *)
(* the step emit exactly one Character `<`, go back to ScriptData and      *)
(* leave the character to be consumed again there.                         *)
(***************************************************************************)
C27_ScriptDataLessThanSignFallback ==
    [][(Running("ScriptDataLessThanSign")
            /\ next_input_char(Self) \notin {Some(SOLIDUS), Some(BANG)}) =>
          /\ tokens' = Append(tokens, Character(LT))
          /\ state' = "ScriptData"
          /\ input_stream' = input_stream]_vars

(***************************************************************************)
(* C31: a U+0000 byte read in one of the text states reports               *)
(* `unexpected-null-character` and is emitted as one Character token, with *)
(* data U+0000 in Data and U+FFFD in RCDATA, RAWTEXT, ScriptData and       *)
(* PLAINTEXT; the byte is consumed, nothing else is emitted and the state  *)
(* stays as it was.                                                        *)
(***************************************************************************)
TextStates == {"Data", "RCDATA", "RAWTEXT", "ScriptData", "PLAINTEXT"}
C31_NullInText ==
    [][\A st \in TextStates :
          AtByte(st, NUL) =>
            /\ parse_errors' = Append(parse_errors, "unexpected-null-character")
            /\ tokens' = Append(tokens,
                                Character(IF st = "Data" THEN NUL ELSE REPLACEMENT))
            /\ state' = st
            /\ input_stream' = [input_stream EXCEPT !.idx = @ + 1]]_vars

(* A U+0000 of Data came out as U+0000, or one of another text state as    *)
(* U+FFFD, with the error reported and the state kept.                     *)
C31_Witness ==
    /\ Returned
    /\ Input = <<97, NUL, 97>>
    /\ state \in TextStates \ {"Data"}
    /\ tokens = <<Character(97), Character(REPLACEMENT), Character(97)>>
    /\ parse_errors = <<"unexpected-null-character">>

(***************************************************************************)
(* C32: CharacterReference is entered only by consuming a `&` in Data,     *)
(* RCDATA or one of the three attribute-value states; the step emits no    *)
(* token and stores the state it leaves in ret_state, and while the state  *)
(* is CharacterReference ret_state stays that state.                       *)
(***************************************************************************)
AmpStates ==
    {"Data", "RCDATA", "AttributeValueDoubleQuoted", "AttributeValueSingleQuoted",
     "AttributeValueUnquoted"}
C32_ReturnStateSaved ==
    /\ [](state = "CharacterReference" =>
            /\ ret_state \in AmpStates
            /\ input_stream.idx > 0
            /\ Input[input_stream.idx] = AMP)
    /\ [][(state' = "CharacterReference" /\ state # "CharacterReference") =>
            /\ state \in AmpStates
            /\ next_input_char(Self) = Some(AMP)
            /\ ret_state' = state
            /\ tokens' = tokens]_vars
    /\ [][\A st \in AmpStates :
            AtByte(st, AMP) => state' = "CharacterReference"]_vars
    /\ [][state = "CharacterReference" => ret_state' = ret_state]_vars

(* A `&` inside a single-quoted attribute value was consumed.              *)
C32_Witness ==
    /\ state = "CharacterReference"
    /\ ret_state = "AttributeValueSingleQuoted"
    /\ Input[input_stream.idx] = AMP

(***************************************************************************)
(* C33: when MarkupDeclarationOpen finds `DOCTYPE` (in any ASCII case) it  *)
(* consumes exactly those 7 bytes and enters the DOCTYPE state, so that    *)
(* the byte after the keyword is the first one the DOCTYPE state handles.  *)
(***************************************************************************)
AtKeyword(st, kw) ==
    /\ Running(st)
    /\ input_stream.idx + Len(kw) <= Len(Input)
    /\ LowerSeq(SubSeq(Input, input_stream.idx + 1, input_stream.idx + Len(kw)))
          = LowerSeq(kw)
C33_DoctypeKeywordConsumed ==
    [][AtKeyword("MarkupDeclarationOpen", KW_DOCTYPE) =>
          /\ state' = "DOCTYPE"
          /\ input_stream' = [input_stream EXCEPT !.idx = @ + Len(KW_DOCTYPE)]]_vars

(***************************************************************************)
(* C34: in AfterDOCTYPEName, when the next six bytes spell `PUBLIC` or     *)
(* `SYSTEM` in any ASCII case, the step consumes exactly those six bytes   *)
(* and enters AfterDOCTYPEPublicKeyword or AfterDOCTYPESystemKeyword,      *)
(* leaving the DOCTYPE token, and so its force_quirks flag, as it was.     *)
(***************************************************************************)
KeywordRecognised(kw, st) ==
    AtKeyword("AfterDOCTYPEName", kw) =>
        /\ state' = st
        /\ input_stream' = [input_stream EXCEPT !.idx = @ + Len(kw)]
        /\ current_doctype_token' = current_doctype_token
        /\ parse_errors' = parse_errors
C34_DoctypeKeywords ==
    [][/\ KeywordRecognised(KW_PUBLIC, "AfterDOCTYPEPublicKeyword")
       /\ KeywordRecognised(KW_SYSTEM, "AfterDOCTYPESystemKeyword")]_vars

(***************************************************************************)
(* C35: in the DOCTYPE public identifier states (double- and single-       *)
(* quoted) every byte other than the closing quote, `>` and U+0000 is      *)
(* appended as it is to the token's public_id; U+0000 is appended as       *)
(* U+FFFD.                                                                 *)
(***************************************************************************)
PublicIdByte(st, quote) ==
    (Running(st) /\ next_input_char(Self) \notin {Some(quote), Some(GT)}) =>
        /\ current_doctype_token.type = "DOCTYPE"
        /\ current_doctype_token.public_id # None
        /\ current_doctype_token'.public_id =
              Some(Append(current_doctype_token.public_id[1],
                          IF next_input_char(Self) = Some(NUL)
                          THEN REPLACEMENT
                          ELSE next_input_char(Self)[1]))
C35_PublicIdentifierBytes ==
    [][/\ PublicIdByte("DOCTYPEPublicIdentifierDoubleQuoted", DQUOTE)
       /\ PublicIdByte("DOCTYPEPublicIdentifierSingleQuoted", SQUOTE)]_vars

(***************************************************************************)
(* C36: every DOCTYPE token emitted by a step that reports                 *)
(* missing-doctype-name, missing-doctype-public-identifier,                *)
(* missing-doctype-system-identifier, abrupt-doctype-public-identifier,    *)
(* abrupt-doctype-system-identifier or eof-in-doctype has force_quirks     *)
(* set, and a `>` read where one of the first five applies does report it  *)
(* and emit the token.                                                     *)
(***************************************************************************)
AbruptErrors ==
    {"missing-doctype-name", "missing-doctype-public-identifier",
     "missing-doctype-system-identifier", "abrupt-doctype-public-identifier",
     "abrupt-doctype-system-identifier"}
AbruptStates ==
    {"BeforeDOCTYPEName", "AfterDOCTYPEPublicKeyword", "BeforeDOCTYPEPublicIdentifier",
     "DOCTYPEPublicIdentifierDoubleQuoted", "DOCTYPEPublicIdentifierSingleQuoted",
     "AfterDOCTYPESystemKeyword", "BeforeDOCTYPESystemIdentifier",
     "DOCTYPESystemIdentifierDoubleQuoted"}
ReportsOneOf(errs) ==
    /\ Len(parse_errors') = Len(parse_errors) + 1
    /\ parse_errors'[Len(parse_errors')] \in errs
EmittedNow == {tokens'[i] : i \in (Len(tokens) + 1)..Len(tokens')}
C36_AbruptDoctypeForcesQuirks ==
    [][/\ ReportsOneOf(AbruptErrors \cup {"eof-in-doctype"}) =>
            \A t \in EmittedNow : t.type = "DOCTYPE" => t.force_quirks
       /\ \A st \in AbruptStates :
            AtByte(st, GT) =>
                /\ ReportsOneOf(AbruptErrors)
                /\ state' = "Data"
                /\ \E t \in EmittedNow : t.type = "DOCTYPE" /\ t.force_quirks]_vars

(* A doctype cut short by `>` inside its public identifier was emitted     *)
(* with force_quirks set.                                                  *)
C36_Witness ==
    /\ Returned
    /\ "abrupt-doctype-public-identifier" \in Range(parse_errors)
    /\ \E t \in Range(tokens) :
        t.type = "DOCTYPE" /\ t.force_quirks /\ t.public_id # None

(***************************************************************************)
(* C38: TreeConstructor::reset_insertion_mode changes only insertion_mode: *)
(* no step of a call changes the stack of open elements, the fragment flag *)
(* or the context element (nor a field of the tokenizer), insertion_mode   *)
(* is written only when the selector returns, and a call made after an     *)
(* earlier call has returned, with nothing changed in between, returns the *)
(* mode the earlier call stored.                                           *)
(***************************************************************************)
EarlierCallReturned == insertion_mode # "Initial"
C38_ResetChangesOnlyMode ==
    [][/\ UNCHANGED <<stack_of_open_elements, is_fragment_case, context_element>>
       /\ UNCHANGED tok_vars
       /\ sel_pc' # "done" => insertion_mode' = insertion_mode
       /\ (sel_pc' = "done" /\ EarlierCallReturned) => insertion_mode' = insertion_mode
       /\ sel_pc' = "done" => insertion_mode' \in InsertionModes \ {"Initial"}]_vars

(* A second call on [html, tr] in the fragment case is under way, the      *)
(* first having stored InRow.                                              *)
C38_Witness ==
    /\ sel_pc = "loop"
    /\ EarlierCallReturned
    /\ StackKinds = <<"html", "tr">>
    /\ is_fragment_case
    /\ context_element # None
    /\ insertion_mode = "InRow"

(***************************************************************************)
(* C39: in every tokenizer execution reconsume_char is called at most once *)
(* between two advances of the cursor and never with the cursor at index   *)
(* 0, so the decrement never underflows; the cursor stays within           *)
(* 0..=input length, and a step moves it back by at most one.              *)
(***************************************************************************)
Underflowed == input_stream.idx = 0 /\ reconsumed > 0
C39_ReconsumeBounded ==
    /\ [](/\ reconsumed <= 1
          /\ ~Underflowed
          /\ input_stream.idx \in 0..Len(input_stream.data))
    /\ [][input_stream.idx' >= input_stream.idx - 1]_vars

(* CommentStart has reconsumed the first byte of a comment: the cursor     *)
(* stands before it again.                                                 *)
C39_Witness ==
    /\ pc = "run"
    /\ reconsumed = 1
    /\ state = "Comment"
    /\ input_stream.idx = 4
    /\ Input[5] = 97
    /\ current_comment_token = Comment(<<>>)

(***************************************************************************)
(* C40: no handler unwraps an absent value, for any input: the run loop    *)
(* never panics; whenever the tokenizer is in DOCTYPEName the current      *)
(* doctype token exists with its name present, whenever it is in a DOCTYPE *)
(* public-identifier quoted state public_id is present, and whenever it is *)
(* in the DOCTYPE system-identifier double-quoted state system_id is       *)
(* present.                                                                *)
(***************************************************************************)
DoctypeFieldPresent(st, field) ==
    state = st =>
        /\ current_doctype_token.type = "DOCTYPE"
        /\ current_doctype_token[field] # None
C40_NoUnwrapOfAbsent ==
    /\ pc # "panicked"
    /\ DoctypeFieldPresent("DOCTYPEName", "name")
    /\ DoctypeFieldPresent("DOCTYPEPublicIdentifierDoubleQuoted", "public_id")
    /\ DoctypeFieldPresent("DOCTYPEPublicIdentifierSingleQuoted", "public_id")
    /\ DoctypeFieldPresent("DOCTYPESystemIdentifierDoubleQuoted", "system_id")

(* A byte has been pushed onto the system identifier of a doctype that has *)
(* a name and no public identifier.                                        *)
C40_Witness ==
    /\ pc = "run"
    /\ state = "DOCTYPESystemIdentifierDoubleQuoted"
    /\ current_doctype_token.type = "DOCTYPE"
    /\ current_doctype_token.name # None
    /\ current_doctype_token.public_id = None
    /\ current_doctype_token.system_id # None
    /\ current_doctype_token.system_id # Some(<<>>)

====
